---- MODULE Spec2Model ----
(***************************************************************************)
(* The data-cleaning, smoothing and metrics pipeline of the CPET analyser  *)
(* (src/hooks/useDataProcessor.ts), modelled as pure functions over rows.  *)
(*                                                                         *)
(* Numbers.  The code computes with floating-point numbers; the model      *)
(* computes exactly on a grid.  A primary-channel value is an integer      *)
(*        v = ONE * A + Scale * b                                          *)
(* standing for the real number  A + b * nu,  where A is the value in the  *)
(* channel's natural unit, nu = 1e-6 / EpsFine is a step far below one     *)
(* natural unit, and  |b| < Fine / 2.  Sums, differences, comparisons and  *)
(* the divisions by 2 and 3 of the interpolator and the smoother are then  *)
(* plain integer operations on v (Scale = 18 keeps them exact); only the   *)
(* products of the 3SD rule decode v into (A, b).  The tolerance 1e-6 of   *)
(* the no-op rule is EPS = Scale * EpsFine on this grid.                   *)
(* A derived-channel value, an average and an integral are quotients       *)
(* <<num, den>> of such integers, compared by cross-multiplication.        *)
(*                                                                         *)
(* Each exported function has its own specification (SpecClean,            *)
(* SpecCleanHr, SpecSmooth, SpecMetrics, SpecPct, SpecAuc, SpecRecalc):    *)
(* Init draws the arguments from a bounded set and the action applies the  *)
(* function.  SpecHeap runs the same functions on row objects with an      *)
(* identity, to tell a copy from a shared row.  SpecBatch is the batch     *)
(* handler of src/App.tsx, one action per step between two awaits.         *)
(***************************************************************************)
EXTENDS Integers, Sequences, FiniteSets, TLC

VARIABLES
    pc,          \* "input" before the call, the name of the finished call after it
    data,        \* the row array passed to the function under analysis
    bodyWeight,  \* the body-weight scalar passed with it
    arg,         \* the other arguments: a KeyMetrics object, or the AUC interval
    mid,         \* cleanAndInterpolateData: its local state after the removal loop
    out,         \* the value the function returned
    heap,        \* the row objects and the arrays that hold them, where identity matters
    batch        \* handleBatchProcess: its files, its position and the history

vars == <<pc, data, bodyWeight, arg, mid, out, heap, batch>>

----------------------------------------------------------------------------
(* Number grid *)

Scale == 2 * 9
Fine == 10 * 10
ONE == Scale * Fine
EpsFine == 2 * 2
\* 1e-6, the tolerance of the no-op rule
EPS == Scale * EpsFine

\* null of a primary channel (number | null)
Null == 0 - 1000000000
\* null of a derived channel; a derived number is a quotient <<num, den>>
DNull == << >>

IsNumber(v) == v # Null

Abs(x) == IF x < 0 THEN -x ELSE x

\* the natural-unit part A and the fine part b of a raw grid value
Coarse(v) == (v + (ONE \div 2)) \div ONE
FinePart(v) == (v - ONE * Coarse(v)) \div Scale

\* 0-based arrays: functions on 0 .. n-1
ALen(a) == Cardinality(DOMAIN a)

OUTLIER_COLS == <<"VO2", "VCO2", "VE", "HR", "VT", "BF">>
PrimaryCols == {"VO2", "VCO2", "VE", "HR", "VT", "BF"}
DerivedCols == {"VO2kg", "VO2HR", "VEVO2", "VEVCO2", "RER", "VDVT"}

STAGE_ROWS == 18

----------------------------------------------------------------------------
(* recalculateDerivedMetrics *)

\* a quotient num / den of two grid values or of a grid value and a plain number
Quot(num, den) == <<num, den>>

\* q1 = q2 as numbers (both defined, positive denominators)
QuotEq(q1, q2) == q1[1] * q2[2] = q2[1] * q1[2]

recalculateDerivedMetricsUnclamped(row, w) ==
    LET vo2 == row.VO2
        vco2 == row.VCO2
        ve == row.VE
        hr == row.HR
        rerOk == IsNumber(vco2) /\ IsNumber(vo2) /\ vo2 > 0
    IN [row EXCEPT
          !.VO2kg = IF IsNumber(vo2) /\ w > 0 THEN Quot(vo2 * 1000, w * ONE) ELSE DNull,
          !.VO2HR = IF IsNumber(vo2) /\ IsNumber(hr) /\ hr > 0
                    THEN Quot(vo2 * 1000, hr) ELSE DNull,
          !.VEVO2 = IF IsNumber(ve) /\ IsNumber(vo2) /\ vo2 > 0
                    THEN Quot(ve, vo2) ELSE DNull,
          !.VEVCO2 = IF IsNumber(ve) /\ IsNumber(vco2) /\ vco2 > 0
                     THEN Quot(ve, vco2) ELSE DNull,
          !.RER = IF rerOk THEN Quot(vco2, vo2) ELSE DNull,
          !.VDVT = IF rerOk THEN Quot(5 * vco2 - vo2, 20 * vo2) ELSE DNull]

recalculateDerivedMetrics(row, w) ==
    LET vo2 == row.VO2
        vco2 == row.VCO2
        ve == row.VE
        hr == row.HR
        rerOk == IsNumber(vco2) /\ IsNumber(vo2) /\ vo2 > 0
    IN [row EXCEPT
          !.VO2kg = IF IsNumber(vo2) /\ w > 0 THEN Quot(vo2 * 1000, w * ONE) ELSE DNull,
          !.VO2HR = IF IsNumber(vo2) /\ IsNumber(hr) /\ hr > 0
                    THEN Quot(vo2 * 1000, hr) ELSE DNull,
          !.VEVO2 = IF IsNumber(ve) /\ IsNumber(vo2) /\ vo2 > 0
                    THEN Quot(ve, vo2) ELSE DNull,
          !.VEVCO2 = IF IsNumber(ve) /\ IsNumber(vco2) /\ vco2 > 0
                     THEN Quot(ve, vco2) ELSE DNull,
          !.RER = IF rerOk THEN Quot(vco2, vo2) ELSE DNull,
          \* max(0, 0.25 * rer - 0.05) = max(0, (5 vco2 - vo2) / (20 vo2))
          !.VDVT = IF rerOk
                   THEN (IF 5 * vco2 - vo2 > 0 THEN Quot(5 * vco2 - vo2, 20 * vo2)
                         ELSE Quot(0, 20 * vo2))
                   ELSE DNull]

----------------------------------------------------------------------------
(* Audit map: a JS Map keyed by `${time}-${col}`, kept in insertion order *)

AuditIndex(audit, time, col) ==
    IF \E k \in 1..Len(audit) : audit[k].time = time /\ audit[k].column = col
    THEN CHOOSE k \in 1..Len(audit) : audit[k].time = time /\ audit[k].column = col
    ELSE 0

\* auditMap.set(logKey, entry): replaces in place, else appends
AuditSet(audit, entry) ==
    LET k == AuditIndex(audit, entry.time, entry.column)
    IN IF k = 0 THEN Append(audit, entry) ELSE [audit EXCEPT ![k] = entry]

\* auditMap.delete(logKey)
AuditDelete(audit, time, col) ==
    LET k == AuditIndex(audit, time, col)
    IN IF k = 0 THEN audit
       ELSE [m \in 1..(Len(audit) - 1) |-> IF m < k THEN audit[m] ELSE audit[m + 1]]

RemovedEntry(time, col, originalValue, rule, stage) ==
    [time |-> time, column |-> col, originalValue |-> originalValue,
     reason |-> <<rule, stage>>, action |-> "REMOVED", newValue |-> Null]

----------------------------------------------------------------------------
(* cleanAndInterpolateData, phase 1: stage-wise outlier removal *)

\* Statistics of one channel over the rows j..hi of d (the stage without its
\* first 3 rows): the count of numbers and the sums that decide
\* |x - mean| > 3 * stdDev exactly, for x = A + b*nu:
\*   (n x - S)^2 > 9 (n Q - S^2), compared coefficient by coefficient in nu.
RECURSIVE StageStats(_, _, _, _, _)
StageStats(d, col, j, hi, acc) ==
    IF j > hi THEN acc
    ELSE IF IsNumber(d[j][col])
         THEN LET a == Coarse(d[j][col])
                  b == FinePart(d[j][col])
              IN StageStats(d, col, j + 1, hi,
                     [n |-> acc.n + 1, sa |-> acc.sa + a, sb |-> acc.sb + b,
                      qaa |-> acc.qaa + a * a, qab |-> acc.qab + a * b,
                      qbb |-> acc.qbb + b * b])
         ELSE StageStats(d, col, j + 1, hi, acc)

NoStats == [n |-> 0, sa |-> 0, sb |-> 0, qaa |-> 0, qab |-> 0, qbb |-> 0]

\* originalValue < lowerBound || originalValue > upperBound
OutOfBand(st, v) ==
    LET da == st.n * Coarse(v) - st.sa
        db == st.n * FinePart(v) - st.sb
        d0 == da * da - 9 * (st.n * st.qaa - st.sa * st.sa)
        d1 == 2 * da * db - 18 * (st.n * st.qab - st.sa * st.sb)
        d2 == db * db - 9 * (st.n * st.qbb - st.sb * st.sb)
    IN \/ d0 > 0
       \/ d0 = 0 /\ d1 > 0
       \/ d0 = 0 /\ d1 = 0 /\ d2 > 0

FirstScannedRowLate == 3 + 1

\* first stage row the 3SD loop looks at
FirstScannedRow == 3

\* the rows of stage i (starting at start, complete) that the 3SD rule rejects in col
ThreeSdFlagged(d, col, start) ==
    LET st == StageStats(d, col, start + 3, start + STAGE_ROWS - 1, NoStats)
    IN IF st.n < 2 THEN {}
       ELSE {j \in (start + FirstScannedRow)..(start + STAGE_ROWS - 1) :
                IsNumber(d[j][col]) /\ OutOfBand(st, d[j][col])}

\* the inner loop over j for one column: null, log, count
RECURSIVE ThreeSdRemove(_, _, _, _, _, _)
ThreeSdRemove(s, col, flagged, stage, j, end) ==
    IF j >= end THEN s
    ELSE IF j \in flagged
         THEN ThreeSdRemove(
                [d |-> [s.d EXCEPT ![j][col] = Null],
                 audit |-> AuditSet(s.audit,
                              RemovedEntry(s.d[j].t, col, s.d[j][col], "3SD", stage)),
                 outliersRemoved |-> s.outliersRemoved + 1,
                 pointsInterpolated |-> s.pointsInterpolated],
                col, flagged, stage, j + 1, end)
         ELSE ThreeSdRemove(s, col, flagged, stage, j + 1, end)

\* the loop over OUTLIER_COLS of one complete stage
RECURSIVE ThreeSdPass(_, _, _, _)
ThreeSdPass(s, stage, start, c) ==
    IF c > Len(OUTLIER_COLS) THEN s
    ELSE LET col == OUTLIER_COLS[c]
             flagged == ThreeSdFlagged(s.d, col, start)
         IN ThreeSdPass(
              IF flagged = {} THEN s
              ELSE ThreeSdRemove(s, col, flagged, stage, start, start + STAGE_ROWS),
              stage, start, c + 1)

HR_MAX == 250
HR_JUMP == 20

HrReasonSpikeOnly(d, start, j) ==
    LET hr == d[j].HR
    IN IF j > start
       THEN LET prev == d[j - 1]
                cur == d[j]
            IN IF /\ IsNumber(prev.HR) /\ IsNumber(cur.VO2) /\ IsNumber(prev.VO2)
                  /\ IsNumber(cur.VE) /\ IsNumber(prev.VE)
                  /\ hr - prev.HR > HR_JUMP * ONE
                  /\ cur.VO2 <= prev.VO2
                  /\ cur.VE <= prev.VE
               THEN "spike"
               ELSE "none"
       ELSE "none"

HrReasonAcrossStages(d, start, j) ==
    LET hr == d[j].HR
    IN IF hr <= 0 \/ hr > HR_MAX * ONE THEN "range"
       ELSE IF j > 0
            THEN LET prev == d[j - 1]
                     cur == d[j]
                 IN IF /\ IsNumber(prev.HR) /\ IsNumber(cur.VO2) /\ IsNumber(prev.VO2)
                       /\ IsNumber(cur.VE) /\ IsNumber(prev.VE)
                       /\ hr - prev.HR > HR_JUMP * ONE
                       /\ cur.VO2 <= prev.VO2
                       /\ cur.VE <= prev.VE
                    THEN "spike"
                    ELSE "none"
            ELSE "none"

\* the reason the heart-rate pass finds for stage row j (absolute index j), or "none"
HrReason(d, start, j) ==
    LET hr == d[j].HR
    IN IF hr <= 0 \/ hr > HR_MAX * ONE THEN "range"
       ELSE IF j > start
            THEN LET prev == d[j - 1]
                     cur == d[j]
                 IN IF /\ IsNumber(prev.HR) /\ IsNumber(cur.VO2) /\ IsNumber(prev.VO2)
                       /\ IsNumber(cur.VE) /\ IsNumber(prev.VE)
                       /\ hr - prev.HR > HR_JUMP * ONE
                       /\ cur.VO2 <= prev.VO2
                       /\ cur.VE <= prev.VE
                    THEN "spike"
                    ELSE "none"
            ELSE "none"

\* the pass without the test of line 328: a null HR is looked at like a number
RECURSIVE HrPassOverNulls(_, _, _, _, _)
HrPassOverNulls(s, stage, start, j, end) ==
    IF j >= end THEN s
    ELSE LET reason == IF s.d[j].HR = Null THEN "range" ELSE HrReason(s.d, start, j)
         IN IF reason = "none" THEN HrPassOverNulls(s, stage, start, j + 1, end)
            ELSE HrPassOverNulls(
                   [d |-> [s.d EXCEPT ![j].HR = Null],
                    audit |-> AuditSet(s.audit,
                                 RemovedEntry(s.d[j].t, "HR", s.d[j].HR, reason, stage)),
                    outliersRemoved |-> s.outliersRemoved + 1,
                    pointsInterpolated |-> s.pointsInterpolated],
                   stage, start, j + 1, end)

RECURSIVE HrPass(_, _, _, _, _)
HrPass(s, stage, start, j, end) ==
    IF j >= end THEN s
    ELSE IF ~IsNumber(s.d[j].HR) THEN HrPass(s, stage, start, j + 1, end)
    ELSE LET reason == HrReason(s.d, start, j)
         IN IF reason = "none" THEN HrPass(s, stage, start, j + 1, end)
            ELSE HrPass(
                   [d |-> [s.d EXCEPT ![j].HR = Null],
                    audit |-> AuditSet(s.audit,
                                 RemovedEntry(s.d[j].t, "HR", s.d[j].HR, reason, stage)),
                    outliersRemoved |-> s.outliersRemoved + 1,
                    pointsInterpolated |-> s.pointsInterpolated],
                   stage, start, j + 1, end)

\* Math.ceil(length / STAGE_ROWS)
NumStages(n) == (n + STAGE_ROWS - 1) \div STAGE_ROWS

RECURSIVE RemovalLoopEveryWindow(_, _)
RemovalLoopEveryWindow(s, i) ==
    LET n == ALen(s.d)
        start == i * STAGE_ROWS
        end == IF (i + 1) * STAGE_ROWS < n THEN (i + 1) * STAGE_ROWS ELSE n
    IN IF i >= NumStages(n) THEN s
       ELSE IF end - start < STAGE_ROWS
            THEN RemovalLoopEveryWindow(HrPass(s, i + 1, start, start, end), i + 1)
            ELSE RemovalLoopEveryWindow(
                   HrPass(ThreeSdPass(s, i + 1, start, 1), i + 1, start, start, end), i + 1)

\* the loop over the stages; the final partial stage is skipped
RECURSIVE RemovalLoop(_, _)
RemovalLoop(s, i) ==
    LET n == ALen(s.d)
        start == i * STAGE_ROWS
        end == IF (i + 1) * STAGE_ROWS < n THEN (i + 1) * STAGE_ROWS ELSE n
    IN IF i >= NumStages(n) THEN s
       ELSE IF end - start < STAGE_ROWS /\ i = NumStages(n) - 1 THEN RemovalLoop(s, i + 1)
       ELSE RemovalLoop(HrPass(ThreeSdPass(s, i + 1, start, 1), i + 1, start, start, end),
                        i + 1)

\* the state of cleanAndInterpolateData after its first loop
RemovalPhase(input) ==
    RemovalLoop([d |-> input, audit |-> << >>, outliersRemoved |-> 0,
                 pointsInterpolated |-> 0], 0)

----------------------------------------------------------------------------
(* cleanAndInterpolateData, phase 2: gap-limited linear interpolation *)

\* the widest gap (nextIndex - prevIndex) that is bridged
MAX_GAP == 3

\* nearest non-null index below i inside i's stage, or -1
PrevIndex(d, col, i) ==
    LET lo == (i \div STAGE_ROWS) * STAGE_ROWS
        c == {j \in lo..(i - 1) : d[j][col] # Null}
    IN IF c = {} THEN -1 ELSE CHOOSE j \in c : \A k \in c : k <= j

\* nearest non-null index above i inside i's stage and inside the series, or -1
NextIndex(d, col, i) ==
    LET hi == ((i \div STAGE_ROWS) + 1) * STAGE_ROWS
        c == {j \in (i + 1)..(hi - 1) : j < ALen(d) /\ d[j][col] # Null}
    IN IF c = {} THEN -1 ELSE CHOOSE j \in c : \A k \in c : j <= k

InterpolateMidpoint(prevValue, nextValue, i, prevIndex, gapSize) ==
    (prevValue + nextValue) \div 2

\* prevValue + (nextValue - prevValue) * ((i - prevIndex) / gapSize)
Interpolate(prevValue, nextValue, i, prevIndex, gapSize) ==
    prevValue + ((nextValue - prevValue) * (i - prevIndex)) \div gapSize

\* Math.abs(originalValue - interpolatedValue) < 1e-6
NearlyEqual(originalValue, interpolatedValue) ==
    Abs(originalValue - interpolatedValue) < EPS

RestoreOriginalKeepCount(s, col, i, k) ==
    [d |-> [s.d EXCEPT ![i][col] = s.audit[k].originalValue],
     audit |-> AuditDelete(s.audit, s.d[i].t, col),
     outliersRemoved |-> s.outliersRemoved,
     pointsInterpolated |-> s.pointsInterpolated]

\* the no-op branch: the original comes back, its entry goes, the count drops
RestoreOriginal(s, col, i, k) ==
    [d |-> [s.d EXCEPT ![i][col] = s.audit[k].originalValue],
     audit |-> AuditDelete(s.audit, s.d[i].t, col),
     outliersRemoved |-> s.outliersRemoved - 1,
     pointsInterpolated |-> s.pointsInterpolated]

\* the cell takes the interpolated value and its entry is upgraded
UpgradeEntry(s, col, i, k, interpolatedValue) ==
    [d |-> [s.d EXCEPT ![i][col] = interpolatedValue],
     audit |-> [s.audit EXCEPT ![k].action = "INTERPOLATED",
                               ![k].newValue = interpolatedValue],
     outliersRemoved |-> s.outliersRemoved,
     pointsInterpolated |-> s.pointsInterpolated + 1]

\* no entry under the key: the cell takes the interpolated value, nothing is logged
FillUnlogged(s, col, i, interpolatedValue) ==
    [s EXCEPT !.d = [s.d EXCEPT ![i][col] = interpolatedValue]]

\* the body of the loop for one null cell (i, col)
FillCell(s, col, i) ==
    LET prevIndex == PrevIndex(s.d, col, i)
        nextIndex == NextIndex(s.d, col, i)
        gapSize == nextIndex - prevIndex
        interpolatedValue ==
            Interpolate(s.d[prevIndex][col], s.d[nextIndex][col], i, prevIndex, gapSize)
        k == AuditIndex(s.audit, s.d[i].t, col)
    IN IF prevIndex # -1 /\ nextIndex # -1 /\ gapSize <= MAX_GAP
       THEN IF k # 0
            THEN IF NearlyEqual(s.audit[k].originalValue, interpolatedValue)
                 THEN RestoreOriginal(s, col, i, k)
                 ELSE UpgradeEntry(s, col, i, k, interpolatedValue)
            ELSE FillUnlogged(s, col, i, interpolatedValue)
       ELSE s

\* the loop without the test of line 363: every cell is interpolated
RECURSIVE InterpolateColEveryCell(_, _, _)
InterpolateColEveryCell(s, col, i) ==
    IF i >= ALen(s.d) THEN s
    ELSE InterpolateColEveryCell(FillCell(s, col, i), col, i + 1)

\* for (let i = 0; i < length; i++) of one column
RECURSIVE InterpolateCol(_, _, _)
InterpolateCol(s, col, i) ==
    IF i >= ALen(s.d) THEN s
    ELSE IF s.d[i][col] = Null THEN InterpolateCol(FillCell(s, col, i), col, i + 1)
    ELSE InterpolateCol(s, col, i + 1)

\* for (const col of OUTLIER_COLS)
RECURSIVE InterpolationLoop(_, _)
InterpolationLoop(s, c) ==
    IF c > Len(OUTLIER_COLS) THEN s
    ELSE InterpolationLoop(
           \* a column without a null is left as it is
           IF \A i \in DOMAIN s.d : s.d[i][OUTLIER_COLS[c]] # Null THEN s
           ELSE InterpolateCol(s, OUTLIER_COLS[c], 0),
           c + 1)

\* Array.prototype.sort with (a, b) => a.time.localeCompare(b.time): stable
RECURSIVE SortByTime(_)
SortByTime(log) ==
    IF Len(log) <= 1 THEN log
    ELSE LET rest == SortByTime(SubSeq(log, 1, Len(log) - 1))
             e == log[Len(log)]
             \* e goes after every entry whose time is <= its own
             pos == Cardinality({k \in 1..Len(rest) : rest[k].time <= e.time})
         IN [m \in 1..Len(log) |->
               IF m <= pos THEN rest[m] ELSE IF m = pos + 1 THEN e ELSE rest[m - 1]]

\* the rest of cleanAndInterpolateData, from the state r its first loop left
InterpolateAndFinish(r, w) ==
    LET s == InterpolationLoop(r, 1)
    IN [cleanedData |-> [i \in DOMAIN s.d |-> recalculateDerivedMetrics(s.d[i], w)],
        auditLog |-> SortByTime(s.audit),
        stats |-> [outliersRemoved |-> s.outliersRemoved,
                   pointsInterpolated |-> s.pointsInterpolated]]

cleanAndInterpolateData(input, w) == InterpolateAndFinish(RemovalPhase(input), w)

----------------------------------------------------------------------------
(* Inputs of the cleaning stage *)

\* the longest series given to cleanAndInterpolateData
MaxRows == 19

NoOut == [none |-> TRUE]

\* Baseline of every primary channel, in natural units: flat over the first and
\* the last rows of a stage, alternating by one unit in between, so that the
\* stage statistics have a non-zero standard deviation.
BaseValue(col, i) ==
    LET b == CASE col = "VO2" -> 20 [] col = "VCO2" -> 18 [] col = "VE" -> 40
               [] col = "HR" -> 100 [] col = "VT" -> 15 [] OTHER -> 25
        r == i % STAGE_ROWS
    IN ONE * (IF r >= 6 /\ r <= 13 THEN (IF r % 2 = 0 THEN b - 1 ELSE b + 1) ELSE b)

\* what an input cell holds instead of its baseline
Choices == {"keep", "null", "p20", "p30", "fine"}

Perturbed(base, choice) ==
    CASE choice = "keep" -> base
      [] choice = "null" -> Null
      [] choice = "p20" -> base + 20 * ONE
      [] choice = "p30" -> base + 30 * ONE
      [] choice = "fine" -> base + 3 * Scale
      [] OTHER -> base

\* derived values as they come from the file: absent, or numbers unrelated to the row
FileDerived == {<<1, 1>>}

InputRow(i, label, col, choice, fd) ==
    LET v(c) == IF c = col THEN Perturbed(BaseValue(c, i), choice) ELSE BaseValue(c, i)
    IN [t |-> label, timeInSeconds |-> 10 * label,
        VO2 |-> v("VO2"), VCO2 |-> v("VCO2"), VE |-> v("VE"),
        HR |-> v("HR"), VT |-> v("VT"), BF |-> v("BF"),
        VO2kg |-> fd, VO2HR |-> fd, VEVO2 |-> fd, VEVCO2 |-> fd, RER |-> fd, VDVT |-> fd,
        Load |-> 50, Marker |-> "m"]

\* A series of n rows whose column col is perturbed in the 4 rows from win on;
\* with dup the rows win, win+1 and win+2 carry one time label (samples that
\* the export stamped with the same second).
CleanInput(n, col, win, pat, dup, fd) ==
    [i \in 0..(n - 1) |->
        InputRow(i, IF dup /\ i > win /\ i <= win + 2 THEN win ELSE i, col,
                 IF i >= win /\ i < win + 4 THEN pat[i - win] ELSE "keep", fd)]

\* where the perturbed rows start: over the unscanned rows of the first stage,
\* and over the end of the first stage
WinStarts == {2, 15}
Weights == {70}

InitClean ==
    /\ pc = "input"
    /\ heap = NoOut
    /\ batch = NoOut
    /\ out = NoOut
    /\ mid = NoOut
    /\ arg = NoOut
    /\ \E n \in STAGE_ROWS..MaxRows, col \in {"VO2", "HR"}, win \in WinStarts,
          pat \in [0..3 -> Choices], dup \in BOOLEAN, fd \in FileDerived :
          \* rows past the first stage matter to the window at its end only
          /\ win + 4 <= STAGE_ROWS => n = STAGE_ROWS
          /\ data = CleanInput(n, col, win, pat, dup, fd)
    /\ bodyWeight \in Weights

CallClean ==
    /\ pc = "input"
    /\ pc' = "cleaned"
    /\ mid' = RemovalPhase(data)
    /\ out' = InterpolateAndFinish(mid', bodyWeight)
    /\ UNCHANGED <<heap, batch, data, bodyWeight, arg>>

NextClean == CallClean

SpecClean == InitClean /\ [][NextClean]_vars

----------------------------------------------------------------------------
(* Inputs of the cleaning stage with heart rates at the physiological bounds *)

\* what an input HR cell holds instead of its baseline: nothing, 0, a value
\* just above 0, exactly 250, a value less than 1e-6 above 250
HrChoices == {"keep", "null", "zero", "low", "top", "over"}

HrValue(base, choice) ==
    CASE choice = "keep" -> base
      [] choice = "null" -> Null
      [] choice = "zero" -> 0
      [] choice = "low" -> Scale
      [] choice = "top" -> HR_MAX * ONE
      [] choice = "over" -> HR_MAX * ONE + 3 * Scale
      [] OTHER -> base

\* A series of n rows whose HR is replaced in the 4 rows from win on; with dup
\* the rows win, win+1 and win+2 carry one time label.
HrInput(n, win, pat, dup, fd) ==
    [i \in 0..(n - 1) |->
        LET row == InputRow(i, IF dup /\ i > win /\ i <= win + 2 THEN win ELSE i,
                            "HR", "keep", fd)
        IN IF i >= win /\ i < win + 4
           THEN [row EXCEPT !.HR = HrValue(row.HR, pat[i - win])]
           ELSE row]

\* where the replaced rows start: in the middle of the first window, where
\* VO2 and VE alternate, and over its end, where they are flat
HrWinStarts == {7, 15}

\* a series that ends one row before its first window is complete
ShortRows == STAGE_ROWS - 1

InitCleanHr ==
    /\ pc = "input"
    /\ heap = NoOut
    /\ batch = NoOut
    /\ out = NoOut
    /\ mid = NoOut
    /\ arg = NoOut
    /\ \E n \in ShortRows..MaxRows, win \in HrWinStarts,
          pat \in [0..3 -> HrChoices], dup \in BOOLEAN, fd \in FileDerived :
          \* rows past the first window matter to the replaced rows at its end only
          /\ win + 4 <= STAGE_ROWS => n <= STAGE_ROWS
          /\ win + 4 > STAGE_ROWS => n >= STAGE_ROWS
          /\ data = HrInput(n, win, pat, dup, fd)
    /\ bodyWeight \in Weights

SpecCleanHr == InitCleanHr /\ [][NextClean]_vars

----------------------------------------------------------------------------
(* Inputs of the cleaning stage with heart-rate jumps *)

\* what a cell of the row before the jump holds instead of its baseline
PrevChoices == [HR : {"keep", "null", "over"}, VO2 : {"keep", "null"}, VE : {"keep", "null"}]

\* what a cell of the row of the jump holds: HR 20 or 30 above the baseline,
\* VO2 and VE missing, one unit higher or one unit lower
CurChoices ==
    [HR : {"keep", "p20", "p30"}, VO2 : {"keep", "null", "up", "down"},
     VE : {"keep", "null", "up", "down"}]

GasValue(base, choice) ==
    CASE choice = "null" -> Null
      [] choice = "up" -> base + ONE
      [] choice = "down" -> base - ONE
      [] OTHER -> base

\* n rows; row win and row win + 1 hold what prev and cur choose for HR, VO2, VE
SpikeInput(n, win, prev, cur, fd) ==
    [i \in 0..(n - 1) |->
        LET row == InputRow(i, i, "HR", "keep", fd)
        IN IF i = win
           THEN [row EXCEPT !.HR = HrValue(@, prev.HR), !.VO2 = GasValue(@, prev.VO2),
                            !.VE = GasValue(@, prev.VE)]
           ELSE IF i = win + 1
           THEN [row EXCEPT !.HR = Perturbed(@, cur.HR), !.VO2 = GasValue(@, cur.VO2),
                            !.VE = GasValue(@, cur.VE)]
           ELSE row]

InitCleanSpike ==
    /\ pc = "input"
    /\ heap = NoOut
    /\ batch = NoOut
    /\ out = NoOut
    /\ mid = NoOut
    /\ arg = NoOut
    \* the jump is at the third row of the first stage, or at the first row of
    \* the second one
    /\ \E win \in {1, STAGE_ROWS - 1}, fd \in FileDerived,
          prev \in PrevChoices, cur \in CurChoices :
          data = SpikeInput(IF win < STAGE_ROWS - 1 THEN STAGE_ROWS ELSE 2 * STAGE_ROWS,
                            win, prev, cur, fd)
    /\ bodyWeight \in Weights

SpecCleanSpike == InitCleanSpike /\ [][NextClean]_vars

----------------------------------------------------------------------------
(* Claims about cleanAndInterpolateData *)

Cleaned == pc = "cleaned"

Rows == DOMAIN data

\* first rows of the complete 18-row stages of the input
CompleteStageStarts ==
    {k * STAGE_ROWS : k \in 0..((ALen(data) \div STAGE_ROWS) - 1)}

SameStage(i, j) == i \div STAGE_ROWS = j \div STAGE_ROWS

UniqueLabel(i) == \A j \in Rows : j # i => data[j].t # data[i].t

EntriesOf(log, i, col) ==
    {k \in DOMAIN log : log[k].time = data[i].t /\ log[k].column = col}

CountAction(log, action) == Cardinality({k \in DOMAIN log : log[k].action = action})

\* the value of col at stage row j lies outside mean +- 3 SD of the stage's rows 3..17
BeyondBand(st, col, j) ==
    st.n >= 2 /\ IsNumber(data[j][col]) /\ OutOfBand(st, data[j][col])

\* the removal loop nulled the cell and logged it as REMOVED
RemovedAndLogged(j, col) ==
    /\ mid.d[j][col] = Null
    /\ \E k \in EntriesOf(mid.audit, j, col) : mid.audit[k].action = "REMOVED"

OutliersRemovedIn(rowsOfStage(_)) ==
    \A start \in CompleteStageStarts : \A col \in PrimaryCols :
        LET st == StageStats(data, col, start + 3, start + STAGE_ROWS - 1, NoStats)
        IN \A j \in rowsOfStage(start) : BeyondBand(st, col, j) => RemovedAndLogged(j, col)

WholeStage(start) == start..(start + STAGE_ROWS - 1)
ScannedRows(start) == (start + 3)..(start + STAGE_ROWS - 1)
SkippedRows(start) == start..(start + 2)

\* C2 as stated: in a complete stage every value of a primary channel, at any
\* stage row including rows 0, 1 and 2, that lies more than 3 SD from the mean
\* of rows 3..17 is nulled and logged REMOVED.
C2_AnyRowBeyondBandRemoved == Cleaned => OutliersRemovedIn(WholeStage)

\* C2 amended: this holds for the stage rows 3..17; the stage rows 0, 1 and 2
\* are not looked at by the 3SD rule, and the removal loop leaves every channel
\* but HR unchanged there.
C2_ScannedRowsBeyondBandRemoved ==
    Cleaned =>
        /\ OutliersRemovedIn(ScannedRows)
        /\ \A start \in CompleteStageStarts : \A j \in SkippedRows(start) :
             \A col \in PrimaryCols \ {"HR"} : mid.d[j][col] = data[j][col]

\* a value beyond the band at a scanned row was removed, and one at a skipped row was kept
C2_Witness ==
    /\ Cleaned
    /\ \E col \in PrimaryCols :
         LET st == StageStats(data, col, 3, STAGE_ROWS - 1, NoStats)
         IN /\ \E j \in ScannedRows(0) : BeyondBand(st, col, j) /\ RemovedAndLogged(j, col)
            /\ \E j \in SkippedRows(0) : BeyondBand(st, col, j) /\ mid.d[j][col] = data[j][col]

\* the null cell (i, col) of d has non-null neighbours on both sides inside its
\* stage, at most 3 indices apart
Bridgeable(d, col, i) ==
    \E p \in 0..(i - 1) : \E q \in (i + 1)..(ALen(d) - 1) :
        /\ SameStage(p, i) /\ SameStage(q, i)
        /\ d[p][col] # Null /\ d[q][col] # Null
        /\ \A k \in (p + 1)..(q - 1) : d[k][col] = Null
        /\ q - p <= 3

StillRemoved(i, col) ==
    \A k \in EntriesOf(out.auditLog, i, col) :
        out.auditLog[k].action = "REMOVED" /\ out.auditLog[k].newValue = Null

\* C3 as stated: a cell that is null after the removal loop and has no pair of
\* neighbours in its stage at most 3 apart is still null in cleanedData, and the
\* audit entry under its (time, channel) key, if any, is still REMOVED without
\* a newValue.
C3_UnbridgeableKeepsEntry ==
    Cleaned =>
        \A i \in Rows : \A col \in PrimaryCols :
            mid.d[i][col] = Null /\ ~Bridgeable(mid.d, col, i)
                => out.cleanedData[i][col] = Null /\ StillRemoved(i, col)

\* What the code keeps of C3: the cell is still null, and its audit entry is still
\* REMOVED without a newValue when no other row carries the same time label.
C3_UnbridgeableStaysNull ==
    Cleaned =>
        \A i \in Rows : \A col \in PrimaryCols :
            mid.d[i][col] = Null /\ ~Bridgeable(mid.d, col, i)
                => /\ out.cleanedData[i][col] = Null
                   /\ UniqueLabel(i) => StillRemoved(i, col)

\* a rejected value with a neighbour missing in its stage, and one in a gap of 4, stay REMOVED
C3_Witness ==
    /\ Cleaned
    /\ \E i \in Rows : \E col \in PrimaryCols :
         /\ mid.d[i][col] = Null /\ ~Bridgeable(mid.d, col, i) /\ UniqueLabel(i)
         /\ EntriesOf(out.auditLog, i, col) # {}
         /\ out.cleanedData[i][col] = Null
         /\ PrevIndex(mid.d, col, i) # -1 /\ NextIndex(mid.d, col, i) # -1

\* the nearest non-null neighbours of (i, col) in d inside i's stage, as a pair <<p, q>>
Neighbours(d, col, i) ==
    CHOOSE pq \in (0..(i - 1)) \X ((i + 1)..(ALen(d) - 1)) :
        /\ SameStage(pq[1], i) /\ SameStage(pq[2], i)
        /\ d[pq[1]][col] # Null /\ d[pq[2]][col] # Null
        /\ \A k \in (pq[1] + 1)..(pq[2] - 1) : k # i => d[k][col] = Null

\* (n - p) times the distance of value from v[p] + (v[n] - v[p]) * (i - p) / (n - p)
OffSegment(d, col, i, value) ==
    LET pq == Neighbours(d, col, i)
        p == pq[1]
        q == pq[2]
    IN [dist |-> Abs((value - d[p][col]) * (q - p) - (d[q][col] - d[p][col]) * (i - p)),
        gap |-> q - p]

OnSegment(d, col, i, value) == OffSegment(d, col, i, value).dist = 0

\* within 1e-6 of the segment
NearSegment(d, col, i, value) ==
    LET o == OffSegment(d, col, i, value) IN o.dist < EPS * o.gap

\* the cell was null after the removal loop and holds a number in cleanedData
Repaired(i, col) == mid.d[i][col] = Null /\ out.cleanedData[i][col] # Null

\* ... a number that is not its own original: it was filled by interpolation
Filled(i, col) == Repaired(i, col) /\ out.cleanedData[i][col] # data[i][col]

\* the column as it stands when the interpolation loop reaches index i: repaired
\* below i, as the removal loop left it from i on
SeriesAt(i, col) ==
    [j \in Rows |-> [c \in {col} |->
        IF j < i THEN out.cleanedData[j][col] ELSE mid.d[j][col]]]

\* C4 as stated: every filled value lies on the segment between the nearest
\* values that were non-null after the removal loop and before any interpolation.
C4_OnSegmentOfRemovalState ==
    Cleaned =>
        \A i \in Rows : \A col \in PrimaryCols :
            Filled(i, col) => OnSegment(mid.d, col, i, out.cleanedData[i][col])

\* C4 amended: every value put into a null cell lies on the segment between the
\* nearest non-null values of the series as it stands when index i is reached
\* (values filled or restored at lower indices included), or is the rejected
\* original logged under the cell's time label, within 1e-6 of that segment.
C4_OnSegmentOfCurrentSeries ==
    Cleaned =>
        \A i \in Rows : \A col \in PrimaryCols :
            Repaired(i, col) =>
                LET v == out.cleanedData[i][col]
                IN \/ OnSegment(SeriesAt(i, col), col, i, v)
                   \/ /\ NearSegment(SeriesAt(i, col), col, i, v)
                      /\ \E r \in Rows : data[r].t = data[i].t /\ data[r][col] = v

\* two adjacent nulls were both filled, with different values
C4_Witness ==
    /\ Cleaned
    /\ \E i \in Rows : \E col \in PrimaryCols :
         /\ i + 1 \in Rows
         /\ Filled(i, col) /\ Filled(i + 1, col)
         /\ out.cleanedData[i][col] # out.cleanedData[i + 1][col]

AllLabelsUnique == \A i \in Rows : UniqueLabel(i)

\* C5 as stated: outliersRemoved is the number of REMOVED entries of the audit
\* log and pointsInterpolated the number of INTERPOLATED entries.
C5_StatsCountActions ==
    Cleaned =>
        /\ out.stats.outliersRemoved = CountAction(out.auditLog, "REMOVED")
        /\ out.stats.pointsInterpolated = CountAction(out.auditLog, "INTERPOLATED")

\* C5 amended: outliersRemoved counts every entry of the audit log, REMOVED and
\* INTERPOLATED alike, and pointsInterpolated counts the INTERPOLATED ones, when
\* no two rows carry the same time label; with shared labels the counters are
\* at least those numbers.
C5_StatsCountEntries ==
    Cleaned =>
        /\ out.stats.outliersRemoved >= Len(out.auditLog)
        /\ out.stats.pointsInterpolated >= CountAction(out.auditLog, "INTERPOLATED")
        /\ AllLabelsUnique =>
             /\ out.stats.outliersRemoved = Len(out.auditLog)
             /\ out.stats.pointsInterpolated = CountAction(out.auditLog, "INTERPOLATED")

\* unique labels, a rejected value interpolated and another one left REMOVED
C5_Witness ==
    /\ Cleaned
    /\ AllLabelsUnique
    /\ CountAction(out.auditLog, "INTERPOLATED") > 0
    /\ CountAction(out.auditLog, "REMOVED") > 0

----------------------------------------------------------------------------
(* applySmoothing: three-point trailing average *)

colsToSmooth == <<"VO2", "VCO2", "VE", "HR", "VT", "BF">>

SmoothedValueInPlace(d, i, col) ==
    LET done == [j \in 0..(i - 1) |->
                    IF j < 2 THEN d[j][col]
                    ELSE IF IsNumber(d[j - 2][col]) /\ IsNumber(d[j - 1][col]) /\ IsNumber(d[j][col])
                         THEN (d[j - 2][col] + d[j - 1][col] + d[j][col]) \div 3
                         ELSE Null]
        val1 == done[i - 2]
        val2 == done[i - 1]
        val3 == d[i][col]
    IN IF IsNumber(val1) /\ IsNumber(val2) /\ IsNumber(val3)
       THEN (val1 + val2 + val3) \div 3
       ELSE Null

\* the value written to newSmoothedData[i][col], i >= 2, read from data
SmoothedValue(d, i, col) ==
    LET val1 == d[i - 2][col]
        val2 == d[i - 1][col]
        val3 == d[i][col]
    IN IF IsNumber(val1) /\ IsNumber(val2) /\ IsNumber(val3)
       THEN (val1 + val2 + val3) \div 3
       ELSE Null

\* row i of newSmoothedData after the loop
SmoothedRow(d, i) ==
    IF i < 2 THEN d[i]
    ELSE [f \in DOMAIN d[i] |->
            IF \E k \in DOMAIN colsToSmooth : colsToSmooth[k] = f
            THEN SmoothedValue(d, i, f)
            ELSE d[i][f]]

applySmoothing(d, w) ==
    IF ALen(d) < 3
    THEN d
    ELSE [i \in DOMAIN d |-> recalculateDerivedMetrics(SmoothedRow(d, i), w)]

----------------------------------------------------------------------------
(* Inputs of the smoother *)

\* the longest series given to applySmoothing
MaxSmoothRows == 4

SmoothChoices == {"keep", "null", "p20"}

\* n rows with VO2 perturbed by pat and HR missing in row hn (hn = n: in no row)
SmoothInput(n, pat, hn, fd) ==
    [i \in 0..(n - 1) |->
        [InputRow(i, i, "VO2", pat[i], fd) EXCEPT !.HR = IF i = hn THEN Null ELSE @]]

InitSmooth ==
    /\ pc = "input"
    /\ heap = NoOut
    /\ batch = NoOut
    /\ out = NoOut
    /\ mid = NoOut
    /\ arg = NoOut
    /\ \E n \in 0..MaxSmoothRows, fd \in FileDerived :
         \E pat \in [0..(n - 1) -> SmoothChoices], hn \in 0..n :
            data = SmoothInput(n, pat, hn, fd)
    /\ bodyWeight \in Weights

CallSmooth ==
    /\ pc = "input"
    /\ pc' = "smoothed"
    /\ out' = applySmoothing(data, bodyWeight)
    /\ UNCHANGED <<heap, batch, data, bodyWeight, arg, mid>>

NextSmooth == CallSmooth

SpecSmooth == InitSmooth /\ [][NextSmooth]_vars

----------------------------------------------------------------------------
(* Claims about applySmoothing and the derived channels *)

Smoothed == pc = "smoothed"

\* C6: on a series of at least 3 rows, every primary channel of an output row
\* i >= 2 is the mean of the INPUT values at i-2, i-1 and i when all three are
\* numbers and null when one of them is null; rows 0 and 1 keep their input values.
C6_WindowOverInput ==
    Smoothed /\ ALen(data) >= 3 =>
        \A i \in Rows : \A col \in PrimaryCols :
            IF i < 2
            THEN out[i][col] = data[i][col]
            ELSE IF data[i - 2][col] # Null /\ data[i - 1][col] # Null /\ data[i][col] # Null
                 THEN /\ out[i][col] # Null
                      /\ 3 * out[i][col] = data[i - 2][col] + data[i - 1][col] + data[i][col]
                 ELSE out[i][col] = Null

\* a window of three numbers that follows a smoothed value differing from its input
C6_Witness ==
    /\ Smoothed
    /\ \E i \in Rows :
         /\ i >= 3
         /\ out[i].VO2 # Null
         /\ out[i - 1].VO2 # Null /\ out[i - 1].VO2 # data[i - 1].VO2
         /\ out[i].HR = Null

\* the rows a call returned
OutRows == IF pc = "cleaned" THEN out.cleanedData ELSE out

\* the six derived channels as section 4.1 of the specification defines them
DerivedBySpec(row, w) ==
    LET rerDefined == row.VO2 # Null /\ row.VCO2 # Null /\ row.VO2 > 0
    IN [VO2kg |-> IF row.VO2 # Null /\ w > 0 THEN <<row.VO2 * 1000, w * ONE>> ELSE DNull,
        VO2HR |-> IF row.VO2 # Null /\ row.HR # Null /\ row.HR > 0
                  THEN <<row.VO2 * 1000, row.HR>> ELSE DNull,
        VEVO2 |-> IF row.VE # Null /\ row.VO2 # Null /\ row.VO2 > 0
                  THEN <<row.VE, row.VO2>> ELSE DNull,
        VEVCO2 |-> IF row.VE # Null /\ row.VCO2 # Null /\ row.VCO2 > 0
                   THEN <<row.VE, row.VCO2>> ELSE DNull,
        RER |-> IF rerDefined THEN <<row.VCO2, row.VO2>> ELSE DNull,
        VDVT |-> IF rerDefined
                 THEN (IF 5 * row.VCO2 > row.VO2
                       THEN <<5 * row.VCO2 - row.VO2, 20 * row.VO2>>
                       ELSE <<0, 20 * row.VO2>>)
                 ELSE DNull]

DerivedFresh(row, w) ==
    \A f \in DerivedCols : row[f] = DerivedBySpec(row, w)[f]

\* C7 as stated: in every row returned by cleanAndInterpolateData and by
\* applySmoothing, for every input length, each derived channel equals the
\* section 4.1 formula of that row's primary channels and the body weight.
C7_DerivedAlwaysRecomputed ==
    pc \in {"cleaned", "smoothed"} =>
        \A i \in DOMAIN OutRows : DerivedFresh(OutRows[i], bodyWeight)

\* What the code keeps of C7: the rows of cleanAndInterpolateData, and the rows
\* of applySmoothing on a series of at least 3 rows.
C7_DerivedRecomputedFromThreeRows ==
    pc \in {"cleaned", "smoothed"} /\ (Smoothed => ALen(data) >= 3) =>
        \A i \in DOMAIN OutRows : DerivedFresh(OutRows[i], bodyWeight)

\* a series of 1 or 2 rows went through the smoother
C7_Witness == Smoothed /\ ALen(data) \in {1, 2}

----------------------------------------------------------------------------
(* calculateKeyMetricsForData: channel maxima and plateau detection *)

STAGE_DURATION_SECONDS == 180
\* the closing seconds of a stage whose VO2 is averaged
TAIL_SECONDS == 30
\* 0.15 L/min
PLATEAU_DELTA == (15 * ONE) \div 100

Undefined == "undefined"

Min(a, b) == IF a < b THEN a ELSE b

\* q1 < q2; quotients over one denominator are compared by their numerators
QuotLess(q1, q2) ==
    IF q1[2] = q2[2] THEN q1[1] < q2[1] ELSE q1[1] * q2[2] < q2[1] * q1[2]
QuotMinus(q1, q2) == Quot(q1[1] * q2[2] - q2[1] * q1[2], q1[2] * q2[2])
QuotPositive(q) == q[1] > 0

MaxOfPrimaryAboveZero(d, col) ==
    LET valid == {d[r][col] : r \in {r \in DOMAIN d : IsNumber(d[r][col])}} \cup {0}
    IN CHOOSE m \in valid : \A v \in valid : v <= m

\* Math.max over the numbers of a primary channel, 0 when there is none
MaxOfPrimary(d, col) ==
    LET valid == {d[r][col] : r \in {r \in DOMAIN d : IsNumber(d[r][col])}}
    IN IF valid = {} THEN 0 ELSE CHOOSE m \in valid : \A v \in valid : v <= m

\* Math.max over the numbers of a derived channel, 0 when there is none
MaxOfDerived(d, col) ==
    LET valid == {d[r][col] : r \in {r \in DOMAIN d : d[r][col] # DNull}}
    IN IF valid = {} THEN Quot(0, 1) ELSE CHOOSE m \in valid : \A v \in valid : ~QuotLess(m, v)

\* Math.ceil(totalDuration / 180), as a loop bound
NumTimeStages(totalDuration) ==
    IF totalDuration > 0
    THEN (totalDuration + STAGE_DURATION_SECONDS - 1) \div STAGE_DURATION_SECONDS
    ELSE 0

TimeStagesOfElapsedTime(d) ==
    LET totalDuration == d[ALen(d) - 1].timeInSeconds - d[0].timeInSeconds
        all == [k \in 1..NumTimeStages(totalDuration) |->
                  [startTime |-> (k - 1) * STAGE_DURATION_SECONDS,
                   endTime |-> Min(k * STAGE_DURATION_SECONDS, totalDuration)]]
    IN SelectSeq(all, LAMBDA stage : stage.endTime > stage.startTime)

\* the stages of 180 s up to the time of the last row
TimeStages(d) ==
    LET totalDuration == d[ALen(d) - 1].timeInSeconds
        all == [k \in 1..NumTimeStages(totalDuration) |->
                  [startTime |-> (k - 1) * STAGE_DURATION_SECONDS,
                   endTime |-> Min(k * STAGE_DURATION_SECONDS, totalDuration)]]
    IN SelectSeq(all, LAMBDA stage : stage.endTime > stage.startTime)

RECURSIVE SumVo2(_, _)
SumVo2(d, rows) ==
    IF rows = {} THEN 0
    ELSE LET r == CHOOSE x \in rows : TRUE IN d[r].VO2 + SumVo2(d, rows \ {r})

\* avgVo2 and isPartial of the stage with 1-based number k
StageAverage(d, stages, k) ==
    LET stage == stages[k]
        stageData == {r \in DOMAIN d : d[r].timeInSeconds >= stage.startTime
                                        /\ d[r].timeInSeconds < stage.endTime}
        actualDuration == stage.endTime - stage.startTime
        isLastStage == k = Len(stages)
        short == isLastStage /\ actualDuration < STAGE_DURATION_SECONDS
        thirtySecondsBeforeEnd == stage.endTime - TAIL_SECONDS
        rowsToAverage ==
            IF short
            THEN (IF actualDuration > TAIL_SECONDS
                  THEN {r \in stageData : d[r].timeInSeconds >= thirtySecondsBeforeEnd}
                  ELSE stageData)
            ELSE {r \in DOMAIN d : d[r].timeInSeconds >= thirtySecondsBeforeEnd
                                    /\ d[r].timeInSeconds < stage.endTime}
        validVo2Values == {r \in rowsToAverage : IsNumber(d[r].VO2)}
    IN [duration |-> actualDuration,
        avgVo2 |-> IF stageData # {} /\ validVo2Values # {}
                   THEN Quot(SumVo2(d, validVo2Values), Cardinality(validVo2Values))
                   ELSE Quot(0, 1),
        isPartial |-> stageData # {} /\ short /\ ~(actualDuration > TAIL_SECONDS)]

DeltaVo2AnyPrevious(index, avgVo2, previousAvgVo2) ==
    IF index > 0 /\ QuotPositive(avgVo2)
    THEN QuotMinus(avgVo2, previousAvgVo2)
    ELSE DNull

\* deltaVo2 of the stage with 0-based index
DeltaVo2(index, avgVo2, previousAvgVo2) ==
    IF index > 0 /\ QuotPositive(avgVo2) /\ QuotPositive(previousAvgVo2)
    THEN QuotMinus(avgVo2, previousAvgVo2)
    ELSE DNull

RECURSIVE StageSummaries(_, _, _, _, _)
StageSummaries(d, stages, k, previousAvgVo2, acc) ==
    IF k > Len(stages) THEN acc
    ELSE LET a == StageAverage(d, stages, k)
         IN StageSummaries(d, stages, k + 1, a.avgVo2,
                Append(acc, [stage |-> k, duration |-> a.duration, avgVo2 |-> a.avgVo2,
                             deltaVo2 |-> DeltaVo2(k - 1, a.avgVo2, previousAvgVo2),
                             isPartial |-> a.isPartial]))

\* vo2_increase !== null && vo2_increase < 0.15
BelowPlateauDelta(vo2_increase) ==
    vo2_increase # DNull /\ vo2_increase[1] * 100 < 15 * ONE * vo2_increase[2]

\* the fallback of line 520 taken always: the label of the last row
PlateauTimeOfLastRow(d, stages) == d[ALen(d) - 1].t

\* the time label of the first row at or after the start of the last stage
PlateauTime(d, stages) ==
    LET lastStageStartTime == stages[Len(stages)].startTime
        found == {r \in DOMAIN d : d[r].timeInSeconds >= lastStageStartTime}
    IN IF found # {} THEN d[CHOOSE r \in found : \A x \in found : r <= x].t
       ELSE d[ALen(d) - 1].t

calculateKeyMetricsForData(d) ==
    IF ALen(d) = 0
    THEN [vo2max |-> 0, vo2max_kg |-> Quot(0, 1), vemax |-> 0, hrmax |-> 0,
          rermax |-> Quot(0, 1), plateauReached |-> FALSE, isPeak |-> TRUE,
          plateauTime |-> Undefined, plateauComparison |-> Undefined,
          plateauStageSummary |-> Undefined]
    ELSE LET stages == TimeStages(d)
             plateauStageSummary == StageSummaries(d, stages, 1, Quot(0, 1), << >>)
             n == Len(plateauStageSummary)
             plateauReached == n >= 2 /\ BelowPlateauDelta(plateauStageSummary[n].deltaVo2)
         IN [vo2max |-> MaxOfPrimary(d, "VO2"),
             vo2max_kg |-> MaxOfDerived(d, "VO2kg"),
             vemax |-> MaxOfPrimary(d, "VE"),
             hrmax |-> MaxOfPrimary(d, "HR"),
             rermax |-> MaxOfDerived(d, "RER"),
             plateauReached |-> plateauReached,
             isPeak |-> ~plateauReached,
             plateauTime |-> IF plateauReached THEN PlateauTime(d, stages) ELSE Undefined,
             plateauComparison |->
                 IF plateauReached
                 THEN [prevStageAvg |-> plateauStageSummary[n - 1].avgVo2,
                       lastStageAvg |-> plateauStageSummary[n].avgVo2]
                 ELSE Undefined,
             plateauStageSummary |-> plateauStageSummary]

----------------------------------------------------------------------------
(* Inputs of the metrics calculator, the percentile extractor and the AUC *)

\* the longest series given to these three functions
MaxSeries == 3

\* sample times in seconds: the start of the test, inside the closing 30 s of
\* the first and of the second 180 s stage, at the start of the third, and 5 s
\* into it
SampleTimes == {0, 160, 340, 360, 365}

\* VO2 in L/min: missing, -1.0 (a sensor artefact), 0, 2.0, 2.1, 2.3
Vo2Levels == {Null, 0 - ONE, 0, 2 * ONE, 2 * ONE + ONE \div 10, 2 * ONE + (3 * ONE) \div 10}

\* a row sampled at time with the given VO2; VE follows VO2 and is missing with
\* it, HR is missing where VO2 reads 0
SeriesRow(time, vo2) ==
    [t |-> time, timeInSeconds |-> time,
     VO2 |-> vo2, VCO2 |-> 2 * ONE,
     VE |-> IF vo2 = Null THEN Null ELSE 40 * ONE + vo2,
     HR |-> IF vo2 = 0 THEN Null ELSE 100 * ONE, VT |-> 15 * ONE, BF |-> 25 * ONE,
     VO2kg |-> IF vo2 = Null THEN DNull ELSE Quot(vo2 \div Scale, 7 * Fine),
     VO2HR |-> DNull, VEVO2 |-> DNull, VEVCO2 |-> DNull,
     RER |-> IF vo2 = Null \/ vo2 <= 0 THEN DNull ELSE Quot(2 * Fine, vo2 \div Scale),
     VDVT |-> DNull, Load |-> 50, Marker |-> "m"]

\* non-decreasing sample times for n rows
TimesOf(n) ==
    {ts \in [0..(n - 1) -> SampleTimes] : \A i \in 0..(n - 2) : ts[i] <= ts[i + 1]}

Series(n, times, vo2) == [i \in 0..(n - 1) |-> SeriesRow(times[i], vo2[i])]

\* data is one of the series of at most MaxSeries rows
SeriesInput ==
    \E n \in 0..MaxSeries :
        \E times \in TimesOf(n), vo2 \in [0..(n - 1) -> Vo2Levels] :
            data = Series(n, times, vo2)

InitMetrics ==
    /\ pc = "input"
    /\ heap = NoOut
    /\ batch = NoOut
    /\ out = NoOut
    /\ mid = NoOut
    /\ arg = NoOut
    /\ bodyWeight \in Weights
    /\ SeriesInput

CallMetrics ==
    /\ pc = "input"
    /\ pc' = "metrics"
    /\ out' = calculateKeyMetricsForData(data)
    /\ UNCHANGED <<heap, batch, data, bodyWeight, arg, mid>>

NextMetrics == CallMetrics

SpecMetrics == InitMetrics /\ [][NextMetrics]_vars

----------------------------------------------------------------------------
(* Claims about calculateKeyMetricsForData *)

Measured == pc = "metrics" /\ ALen(data) > 0

LastSummary == out.plateauStageSummary[Len(out.plateauStageSummary)]
PrevSummary == out.plateauStageSummary[Len(out.plateauStageSummary) - 1]

\* the number of 180 s stages that the time of the last row spans
StagesSpanned ==
    LET total == data[ALen(data) - 1].timeInSeconds
    IN CHOOSE k \in 0..(total + 1) :
         /\ k * STAGE_DURATION_SECONDS >= total
         /\ k > 0 => (k - 1) * STAGE_DURATION_SECONDS < total

\* C1: plateauReached is true if and only if the series yields at least 2
\* stages of 180 s and the last stage's deltaVo2 is non-null and below 0.15;
\* deltaVo2 is non-null exactly when the averages of the last and of the
\* second-to-last stage are both strictly positive, and is then their
\* difference.  A series within a single stage reports no plateau, a negative
\* delta reports one, and an empty series reports none.
C1_PlateauIff ==
    /\ pc = "metrics" /\ ALen(data) = 0 => ~out.plateauReached
    /\ Measured =>
        /\ Len(out.plateauStageSummary) = StagesSpanned
        /\ StagesSpanned < 2 => ~out.plateauReached
        /\ StagesSpanned >= 2 =>
            LET last == LastSummary.avgVo2
                prev == PrevSummary.avgVo2
                d == LastSummary.deltaVo2
            IN /\ d # DNull <=> last[1] > 0 /\ prev[1] > 0
               /\ d # DNull => d[1] * prev[2] * last[2] = (last[1] * prev[2] - prev[1] * last[2]) * d[2]
               /\ out.plateauReached <=>
                    /\ last[1] > 0 /\ prev[1] > 0
                    /\ 100 * (last[1] * prev[2] - prev[1] * last[2]) < 15 * ONE * last[2] * prev[2]
        /\ out.isPeak = ~out.plateauReached

\* a plateau reported on a negative delta
C1_Witness ==
    /\ Measured
    /\ out.plateauReached
    /\ LastSummary.deltaVo2[1] < 0

\* m is the greatest of the numbers in values, or 0 when there is none
GreatestOrZero(m, values) ==
    IF values = {} THEN m = 0
    ELSE m \in values /\ \A v \in values : v <= m

\* the same for quotients
GreatestQuotOrZero(m, values) ==
    IF values = {} THEN m[1] = 0
    ELSE m \in values /\ \A v \in values : v[1] * m[2] <= m[1] * v[2]

NumbersIn(col) == {data[r][col] : r \in {r \in Rows : data[r][col] # Null}}
QuotientsIn(col) == {data[r][col] : r \in {r \in Rows : data[r][col] # DNull}}

\* C12: for a non-empty series each of vo2max, vo2max_kg, vemax, hrmax and
\* rermax is the greatest numeric value of its channel over all rows, and 0
\* when the channel has no numeric value; nulls take no part.
C12_MaximaOverAllRows ==
    Measured =>
        /\ GreatestOrZero(out.vo2max, NumbersIn("VO2"))
        /\ GreatestOrZero(out.vemax, NumbersIn("VE"))
        /\ GreatestOrZero(out.hrmax, NumbersIn("HR"))
        /\ GreatestQuotOrZero(out.vo2max_kg, QuotientsIn("VO2kg"))
        /\ GreatestQuotOrZero(out.rermax, QuotientsIn("RER"))

\* a negative maximum next to a null, and a channel without any number
C12_Witness ==
    /\ Measured
    /\ out.vo2max < 0
    /\ \E r \in Rows : data[r].VO2 = Null
    /\ NumbersIn("HR") # {}
    /\ QuotientsIn("RER") = {} /\ out.rermax[1] = 0

SameTimeInAllRows == \A r \in Rows : data[r].timeInSeconds = data[0].timeInSeconds

\* C13 as stated: an empty series gives five maxima of 0, no plateau and
\* isPeak; a non-empty series whose rows all carry the same timeSeconds builds
\* no stage and gives no plateau and isPeak; isPeak is always the negation of
\* plateauReached.
C13_NoStageWithoutElapsedTime ==
    pc = "metrics" =>
        /\ ALen(data) = 0 =>
             /\ out.vo2max = 0 /\ out.vemax = 0 /\ out.hrmax = 0
             /\ out.vo2max_kg[1] = 0 /\ out.rermax[1] = 0
             /\ ~out.plateauReached /\ out.isPeak
        /\ ALen(data) > 0 /\ SameTimeInAllRows =>
             /\ out.plateauStageSummary = << >>
             /\ ~out.plateauReached /\ out.isPeak
        /\ out.isPeak = ~out.plateauReached

\* C13 amended: the empty series as stated; a non-empty series whose rows all
\* carry the same timeSeconds T builds no stage when T <= 0 and ceil(T / 180)
\* stages when T > 0, none of which contains a row, so that every stage has
\* avgVo2 = 0 and a null deltaVo2 and the result is no plateau and isPeak;
\* isPeak is always the negation of plateauReached.
C13_StagesFromLastTimeAreEmpty ==
    pc = "metrics" =>
        /\ ALen(data) = 0 =>
             /\ out.vo2max = 0 /\ out.vemax = 0 /\ out.hrmax = 0
             /\ out.vo2max_kg[1] = 0 /\ out.rermax[1] = 0
             /\ ~out.plateauReached /\ out.isPeak
        /\ ALen(data) > 0 /\ SameTimeInAllRows =>
             /\ Len(out.plateauStageSummary) = StagesSpanned
             /\ data[0].timeInSeconds <= 0 => out.plateauStageSummary = << >>
             /\ \A k \in 1..Len(out.plateauStageSummary) :
                  /\ out.plateauStageSummary[k].avgVo2[1] = 0
                  /\ out.plateauStageSummary[k].deltaVo2 = DNull
             /\ ~out.plateauReached /\ out.isPeak
        /\ out.isPeak = ~out.plateauReached

\* rows with valid VO2, all at 340 s: two stages, both empty
C13_Witness ==
    /\ pc = "metrics"
    /\ ALen(data) >= 2 /\ SameTimeInAllRows
    /\ \A r \in Rows : data[r].VO2 # Null /\ data[r].VO2 > 0
    /\ Len(out.plateauStageSummary) = 2

----------------------------------------------------------------------------
(* extractPercentageDataForMetrics: first row at each 10 % step of vo2max *)

NullMetrics == [missing |-> TRUE]

\* `${i}%`
PercentLabel(i) == <<i, "%">>

ReachesPercentStrictly(row, vo2max, i) == IsNumber(row.VO2) /\ 100 * row.VO2 > vo2max * i

\* row["V'O2"] >= vo2max * (i / 100)
ReachesPercent(row, vo2max, i) == IsNumber(row.VO2) /\ 100 * row.VO2 >= vo2max * i

FoundIndexLast(d, vo2max, i) ==
    LET hits == {r \in DOMAIN d : ReachesPercent(d[r], vo2max, i)}
    IN IF hits = {} THEN -1 ELSE CHOOSE r \in hits : \A x \in hits : x <= r

\* data.findIndex(...): the first row at or above the threshold, or -1
FoundIndex(d, vo2max, i) ==
    LET hits == {r \in DOMAIN d : ReachesPercent(d[r], vo2max, i)}
    IN IF hits = {} THEN -1 ELSE CHOOSE r \in hits : \A x \in hits : r <= x

\* { ...data[foundIndex], 'VO2_%max': `${i}%` }
RowWithPercentage(row, i) ==
    [f \in DOMAIN row \cup {"VO2_%max"} |-> IF f = "VO2_%max" THEN PercentLabel(i) ELSE row[f]]

\* the loop with the set holding the rows found instead of the percentages
RECURSIVE ExtractLoopOncePerRow(_, _, _, _, _)
ExtractLoopOncePerRow(d, vo2max, i, result, seenRows) ==
    IF i > 100 THEN result
    ELSE LET foundIndex == FoundIndex(d, vo2max, i)
         IN IF foundIndex # -1 /\ foundIndex \notin seenRows
            THEN ExtractLoopOncePerRow(d, vo2max, i + 10,
                                       Append(result, RowWithPercentage(d[foundIndex], i)),
                                       seenRows \cup {foundIndex})
            ELSE ExtractLoopOncePerRow(d, vo2max, i + 10, result, seenRows)

RECURSIVE ExtractLoop(_, _, _, _, _)
ExtractLoop(d, vo2max, i, result, seenPercentages) ==
    IF i > 100 THEN result
    ELSE LET foundIndex == FoundIndex(d, vo2max, i)
         IN IF foundIndex # -1 /\ i \notin seenPercentages
            THEN ExtractLoop(d, vo2max, i + 10,
                             Append(result, RowWithPercentage(d[foundIndex], i)),
                             seenPercentages \cup {i})
            ELSE ExtractLoop(d, vo2max, i + 10, result, seenPercentages)

extractPercentageDataForMetrics(d, metrics) ==
    IF metrics = NullMetrics \/ ALen(d) = 0 THEN << >>
    ELSE ExtractLoop(d, metrics.vo2max, 10, << >>, {})

\* the metrics objects handed over: none, the one computed from the series, and
\* ones whose vo2max comes from elsewhere (negative, or above every sample)
MetricsFor(d) ==
    {NullMetrics, calculateKeyMetricsForData(d)}
        \cup {[calculateKeyMetricsForData(d) EXCEPT !.vo2max = m] : m \in {0 - 2 * ONE, 4 * ONE}}

InitPct ==
    /\ pc = "input"
    /\ heap = NoOut
    /\ batch = NoOut
    /\ out = NoOut
    /\ mid = NoOut
    /\ bodyWeight \in Weights
    /\ SeriesInput
    /\ arg \in MetricsFor(data)

CallExtract ==
    /\ pc = "input"
    /\ pc' = "extracted"
    /\ out' = extractPercentageDataForMetrics(data, arg)
    /\ UNCHANGED <<heap, batch, data, bodyWeight, arg, mid>>

NextPct == CallExtract

SpecPct == InitPct /\ [][NextPct]_vars

----------------------------------------------------------------------------
(* Claims about extractPercentageDataForMetrics *)

Extracted == pc = "extracted"

PercentOf(row) == row["VO2_%max"][1]

\* C10 as stated: the emitted rows are strictly increasing in percentage label
\* and strictly increasing in timeSeconds.
C10_StrictlyIncreasingTimes ==
    Extracted =>
        \A k \in 1..(Len(out) - 1) :
            /\ PercentOf(out[k]) < PercentOf(out[k + 1])
            /\ out[k].timeInSeconds < out[k + 1].timeInSeconds

\* C10 amended: the emitted rows are strictly increasing in percentage label;
\* in timeSeconds they are non-decreasing when metrics.vo2max >= 0 and
\* non-increasing when it is negative, and one source row can be emitted under
\* several labels.
C10_LabelsIncreaseTimesMonotone ==
    Extracted =>
        \A k \in 1..(Len(out) - 1) :
            /\ PercentOf(out[k]) < PercentOf(out[k + 1])
            /\ arg.vo2max >= 0 => out[k].timeInSeconds <= out[k + 1].timeInSeconds
            /\ arg.vo2max < 0 => out[k].timeInSeconds >= out[k + 1].timeInSeconds

\* one row emitted under two labels, followed by a later row
C10_Witness ==
    /\ Extracted
    /\ Len(out) >= 3
    /\ arg.vo2max > 0
    /\ \E k \in 1..(Len(out) - 2) :
         /\ out[k].timeInSeconds = out[k + 1].timeInSeconds
         /\ out[k + 1].timeInSeconds < out[k + 2].timeInSeconds

Percentages == {10 * k : k \in 1..10}

\* the rows whose numeric VO2 is at or above p % of metrics.vo2max
RowsReaching(p) == {r \in Rows : data[r].VO2 # Null /\ 100 * data[r].VO2 >= arg.vo2max * p}

\* the positions of the output that carry the label p%
EmittedFor(p) == {k \in 1..Len(out) : out[k]["VO2_%max"] = <<p, "%">>}

\* C11: for each percentage p = 10, 20, ..., 100, in that order, at most one
\* row is emitted: a copy of the first row in series order whose numeric VO2
\* is at or above vo2max * p / 100, labelled p%; a percentage that no row
\* reaches is skipped, and nothing else is emitted (nothing at all without a
\* metrics object or without rows).
C11_FirstRowPerPercent ==
    Extracted =>
        IF arg = NullMetrics \/ ALen(data) = 0 THEN out = << >>
        ELSE /\ \A k \in 1..Len(out) : PercentOf(out[k]) \in Percentages
             /\ \A k \in 1..(Len(out) - 1) : PercentOf(out[k]) < PercentOf(out[k + 1])
             /\ \A p \in Percentages :
                  IF RowsReaching(p) = {} THEN EmittedFor(p) = {}
                  ELSE /\ Cardinality(EmittedFor(p)) = 1
                       /\ \A k \in EmittedFor(p) : \E r \in RowsReaching(p) :
                            /\ \A x \in RowsReaching(p) : r <= x
                            /\ DOMAIN out[k] = DOMAIN data[r] \cup {"VO2_%max"}
                            /\ \A f \in DOMAIN data[r] : out[k][f] = data[r][f]

\* some percentages are skipped, and a reached one is served by a row that is
\* not the first of the series
C11_Witness ==
    /\ Extracted
    /\ arg # NullMetrics
    /\ \E p \in Percentages : RowsReaching(p) = {}
    /\ \E p \in Percentages : RowsReaching(p) # {} /\ 0 \notin RowsReaching(p)
                               /\ Cardinality(RowsReaching(p)) >= 2

----------------------------------------------------------------------------
(* calculateAuc: trapezoidal integral of VO2 between two fractions of vo2max *)

AucNull == [null |-> TRUE]
TypeError == [thrown |-> "TypeError"]

\* row["V'O2"] >= vo2max * (startPercent / 100)
AtOrAbove(row, vo2max, percent) == IsNumber(row.VO2) /\ 100 * row.VO2 >= vo2max * percent
\* vo2 <= vo2max * (endPercent / 100)
AtOrBelow(row, vo2max, percent) == IsNumber(row.VO2) /\ 100 * row.VO2 <= vo2max * percent

StartIndexAbove(d, vo2max, startPercent) ==
    LET hits == {r \in DOMAIN d : IsNumber(d[r].VO2) /\ 100 * d[r].VO2 > vo2max * startPercent}
    IN IF hits = {} THEN -1 ELSE CHOOSE r \in hits : \A x \in hits : r <= x

\* data.findIndex(...): the first row at or above the start threshold, or -1
StartIndex(d, vo2max, startPercent) ==
    LET hits == {r \in DOMAIN d : AtOrAbove(d[r], vo2max, startPercent)}
    IN IF hits = {} THEN -1 ELSE CHOOSE r \in hits : \A x \in hits : r <= x

EndIndexFirstReaching(d, vo2max, endPercent) ==
    LET hits == {r \in DOMAIN d : AtOrAbove(d[r], vo2max, endPercent)}
    IN IF hits = {} THEN -1 ELSE CHOOSE r \in hits : \A x \in hits : r <= x

\* the scan from the end for the last row at or below the end threshold
EndIndex(d, vo2max, endPercent) ==
    LET hits == {r \in DOMAIN d : AtOrBelow(d[r], vo2max, endPercent)}
    IN IF hits = {} THEN -1 ELSE CHOOSE r \in hits : \A x \in hits : x <= r

NoBracketWhenBehind(startIndex, endIndex) ==
    startIndex = -1 \/ endIndex = -1 \/ startIndex > endIndex

\* startIndex === -1 || endIndex === -1 || startIndex >= endIndex
NoBracket(startIndex, endIndex) ==
    startIndex = -1 \/ endIndex = -1 \/ startIndex >= endIndex

RECURSIVE AucLoopNullAsZero(_, _, _, _)
AucLoopNullAsZero(d, i, endIndex, auc) ==
    IF ~(i < endIndex) THEN [thrown |-> FALSE, auc |-> auc]
    ELSE LET vo2_1 == IF IsNumber(d[i].VO2) THEN d[i].VO2 ELSE 0
             vo2_2 == IF IsNumber(d[i + 1].VO2) THEN d[i + 1].VO2 ELSE 0
             timeDelta == d[i + 1].timeInSeconds - d[i].timeInSeconds
         IN AucLoopNullAsZero(d, i + 1, endIndex, auc + (vo2_1 + vo2_2) * timeDelta)

\* the loop over the pairs i, i+1 from i on: auc is 120 times the sum of
\* avgVo2 * (timeDelta / 60); reading a field of a row outside the array throws
RECURSIVE AucLoop(_, _, _, _)
AucLoop(d, i, endIndex, auc) ==
    IF ~(i < endIndex) THEN [thrown |-> FALSE, auc |-> auc]
    ELSE IF i \notin DOMAIN d \/ (i + 1) \notin DOMAIN d THEN [thrown |-> TRUE, auc |-> auc]
    ELSE LET vo2_1 == d[i].VO2
             vo2_2 == d[i + 1].VO2
             timeDelta == d[i + 1].timeInSeconds - d[i].timeInSeconds
         IN AucLoop(d, i + 1, endIndex,
                    IF IsNumber(vo2_1) /\ IsNumber(vo2_2)
                    THEN auc + (vo2_1 + vo2_2) * timeDelta
                    ELSE auc)

calculateAuc(d, vo2max, startPercent, endPercent) ==
    LET startIndex == StartIndex(d, vo2max, startPercent)
        endIndex == EndIndex(d, vo2max, endPercent)
        loop == AucLoop(d, startIndex, endIndex, 0)
    IN IF NoBracket(startIndex, endIndex) THEN AucNull
       ELSE IF loop.thrown THEN TypeError
       ELSE [value |-> Quot(loop.auc, 120),
             startTime |-> d[startIndex].timeInSeconds,
             endTime |-> d[endIndex].timeInSeconds,
             startVo2 |-> Quot(vo2max * startPercent, 100),
             endVo2 |-> Quot(vo2max * endPercent, 100)]

Percents == {50, 70}
\* reference vo2max in L/min: 3.0 and 4.0
ReferenceMax == {3 * ONE, 4 * ONE}

InitAuc ==
    /\ pc = "input"
    /\ heap = NoOut
    /\ batch = NoOut
    /\ out = NoOut
    /\ mid = NoOut
    /\ bodyWeight \in Weights
    /\ SeriesInput
    /\ arg \in [vo2max : ReferenceMax, startPercent : Percents, endPercent : Percents]

CallAuc ==
    /\ pc = "input"
    /\ pc' = "auc"
    /\ out' = calculateAuc(data, arg.vo2max, arg.startPercent, arg.endPercent)
    /\ UNCHANGED <<heap, batch, data, bodyWeight, arg, mid>>

NextAuc == CallAuc

SpecAuc == InitAuc /\ [][NextAuc]_vars

----------------------------------------------------------------------------
(* Claims about calculateAuc *)

Integrated == pc = "auc"

Valid == {r \in Rows : data[r].VO2 # Null}
ReachStart == {r \in Valid : 100 * data[r].VO2 >= arg.vo2max * arg.startPercent}
ReachEnd == {r \in Valid : 100 * data[r].VO2 >= arg.vo2max * arg.endPercent}
WithinEnd == {r \in Valid : 100 * data[r].VO2 <= arg.vo2max * arg.endPercent}

\* some row of A comes strictly before some row of B's last: min A < max B
FirstBeforeLast(A, B) == \E a \in A : \E b \in B : a < b /\ \A x \in A : a <= x

\* C8 as stated: when every valid VO2 is strictly below the end threshold (no
\* row reaches it), calculateAuc returns null.
C8_NullWhenEndNotReached ==
    Integrated /\ ReachEnd = {} => out = AucNull

\* C8 amended: calculateAuc returns null whenever no row has a VO2 at or below
\* the end threshold (every valid VO2 is strictly above it); when no row
\* reaches the end threshold, the result is null only if no row reaches the
\* start threshold or the first row reaching it is not before the last row
\* with a valid VO2.
C8_NullWhenAllAboveEnd ==
    Integrated =>
        /\ WithinEnd = {} => out = AucNull
        /\ ReachEnd = {} => (out = AucNull <=> ~FirstBeforeLast(ReachStart, Valid))

\* no row reaches the end threshold and an AucResult comes back
C8_Witness ==
    /\ Integrated
    /\ Valid # {} /\ ReachEnd = {}
    /\ out # AucNull
    /\ arg.startPercent < arg.endPercent

\* C9: calculateAuc returns null exactly when (a) no row has a numeric VO2 at or
\* above startVO2, or (b) none has one at or below endVO2, or (c) the first
\* index of the former kind is not strictly smaller than the last index of the
\* latter kind; otherwise it returns an AucResult, and it never throws.
C9_NullExactlyWithoutBracket ==
    Integrated =>
        /\ out # TypeError
        /\ out = AucNull <=>
             \/ ReachStart = {}
             \/ WithinEnd = {}
             \/ ~FirstBeforeLast(ReachStart, WithinEnd)
        /\ out # AucNull => DOMAIN out = {"value", "startTime", "endTime", "startVo2", "endVo2"}

\* null because the first row at the start threshold is the last row within the
\* end threshold
C9_Witness ==
    /\ Integrated
    /\ out = AucNull
    /\ ReachStart # {} /\ WithinEnd # {}
    /\ \E r \in ReachStart : r \in WithinEnd /\ (\A x \in ReachStart : r <= x)
                             /\ (\A x \in WithinEnd : x <= r)

\* the bracket: the first row at or above the start threshold and the last row
\* at or below the end threshold
BracketStart == CHOOSE r \in ReachStart : \A x \in ReachStart : r <= x
BracketEnd == CHOOSE r \in WithinEnd : \A x \in WithinEnd : x <= r

Returned == Integrated /\ out # AucNull /\ out # TypeError

\* q stands for the number v
QuotIs(q, v) == q[1] = v * q[2]

\* C18 as stated: in a non-null result startTime and endTime are the
\* timeSeconds of the first and the last row of the bracket, and startVo2 and
\* endVo2 are the VO2 values of those two rows.
C18_BoundsAchieved ==
    Returned =>
        /\ out.startTime = data[BracketStart].timeInSeconds
        /\ out.endTime = data[BracketEnd].timeInSeconds
        /\ QuotIs(out.startVo2, data[BracketStart].VO2)
        /\ QuotIs(out.endVo2, data[BracketEnd].VO2)

\* C18 amended: startTime and endTime are the timeSeconds of the first and the
\* last row of the bracket; startVo2 and endVo2 are the requested thresholds
\* startPercent * vo2max / 100 and endPercent * vo2max / 100, whatever VO2 the
\* two rows hold.
C18_TimesAchievedBoundsRequested ==
    Returned =>
        /\ out.startTime = data[BracketStart].timeInSeconds
        /\ out.endTime = data[BracketEnd].timeInSeconds
        /\ 100 * out.startVo2[1] = arg.vo2max * arg.startPercent * out.startVo2[2]
        /\ 100 * out.endVo2[1] = arg.vo2max * arg.endPercent * out.endVo2[2]

\* a bracket whose rows hold other VO2 values than the thresholds, the first
\* row of the series below the start threshold
C18_Witness ==
    /\ Returned
    /\ 0 \notin ReachStart
    /\ 100 * data[BracketStart].VO2 > arg.vo2max * arg.startPercent
    /\ 100 * data[BracketEnd].VO2 < arg.vo2max * arg.endPercent

\* the pairs of adjacent rows inside the bracket with a number on both sides
ValidPairs == {i \in BracketStart..(BracketEnd - 1) : data[i].VO2 # Null /\ data[i + 1].VO2 # Null}

RECURSIVE TrapezoidSum(_)
TrapezoidSum(pairs) ==
    IF pairs = {} THEN 0
    ELSE LET i == CHOOSE x \in pairs : TRUE
         IN (data[i].VO2 + data[i + 1].VO2) * (data[i + 1].timeInSeconds - data[i].timeInSeconds)
              + TrapezoidSum(pairs \ {i})

\* C19: the value of a non-null result is the sum over the pairs (i, i+1),
\* s <= i < e, with a numeric VO2 on both sides, of
\* ((VO2[i] + VO2[i+1]) / 2) * (t[i+1] - t[i]) / 60; a pair with a null on
\* either side and the rows outside the bracket contribute nothing.
C19_TrapezoidOverValidPairs ==
    Returned => 120 * out.value[1] = TrapezoidSum(ValidPairs) * out.value[2]

\* a bracket of two pairs with unequal time steps and a non-zero integral
C19_Witness ==
    /\ Returned
    /\ BracketEnd - BracketStart >= 2
    /\ Cardinality(ValidPairs) >= 2
    /\ data[BracketStart + 1].timeInSeconds - data[BracketStart].timeInSeconds
         # data[BracketEnd].timeInSeconds - data[BracketEnd - 1].timeInSeconds
    /\ out.value[1] > 0

----------------------------------------------------------------------------
(* recalculateDerivedMetrics on single rows *)

\* primary values in natural units: missing, negative, zero, and typical ones
RecalcVo2 == {Null, 0 - ONE, 0, 20 * ONE}
RecalcVco2 == {Null, 0, ONE, 18 * ONE}
RecalcVe == {Null, 40 * ONE}
RecalcHr == {Null, 0, 100 * ONE}
\* body weights: not entered (0) and 70 kg
RecalcWeights == {0, 70}
\* derived values the row holds before the call: none, or numbers from the file
RecalcHeld == {DNull, <<1, 1>>}

InitRecalc ==
    /\ pc = "input"
    /\ heap = NoOut
    /\ batch = NoOut
    /\ out = NoOut
    /\ mid = NoOut
    /\ arg = NoOut
    /\ bodyWeight \in RecalcWeights
    /\ \E vo2 \in RecalcVo2, vco2 \in RecalcVco2, ve \in RecalcVe, hr \in RecalcHr,
          fd \in RecalcHeld :
          data = [InputRow(0, 0, "VO2", "keep", fd) EXCEPT
                    !.VO2 = vo2, !.VCO2 = vco2, !.VE = ve, !.HR = hr]

\* the first application; mid keeps its result
CallRecalc ==
    /\ pc = "input"
    /\ pc' = "recalculated"
    /\ mid' = recalculateDerivedMetrics(data, bodyWeight)
    /\ out' = mid'
    /\ UNCHANGED <<heap, batch, data, bodyWeight, arg>>

\* the function applied to its own result
CallRecalcAgain ==
    /\ pc = "recalculated"
    /\ pc' = "recalculated twice"
    /\ out' = recalculateDerivedMetrics(out, bodyWeight)
    /\ UNCHANGED <<heap, batch, data, bodyWeight, arg, mid>>

NextRecalc == CallRecalc \/ CallRecalcAgain

SpecRecalc == InitRecalc /\ [][NextRecalc]_vars

----------------------------------------------------------------------------
(* Claims about recalculateDerivedMetrics *)

\* C17: the six derived channels of the result are the section 4.1 formulas of
\* the row's primary channels and the body weight, null when a guard fails or
\* an operand is null, whatever derived values the row held before; every
\* other field is the row's; applying the function to its result changes
\* nothing.
C17_PureAndIdempotent ==
    /\ pc \in {"recalculated", "recalculated twice"} =>
         /\ DOMAIN mid = DOMAIN data
         /\ \A f \in DerivedCols : mid[f] = DerivedBySpec(data, bodyWeight)[f]
         /\ \A f \in DOMAIN data \ DerivedCols : mid[f] = data[f]
         /\ mid.VDVT # DNull => mid.VDVT[1] >= 0
    /\ pc = "recalculated twice" => out = mid

\* a row holding file values whose dead-space estimate is clamped at 0, applied twice
C17_Witness ==
    /\ pc = "recalculated twice"
    /\ data.VDVT # DNull /\ data.RER # mid.RER
    /\ mid.VDVT # DNull /\ mid.VDVT[1] = 0
    /\ mid.VO2kg # DNull /\ mid.VO2HR = DNull

----------------------------------------------------------------------------
(* Claims about the removal loop at the window and heart-rate bounds *)

\* rows of the complete 18-row windows, and of the final partial one
CompleteRows == {i \in Rows : i < STAGE_ROWS * (ALen(data) \div STAGE_ROWS)}
PartialRows == Rows \ CompleteRows

\* C14: the removal loop leaves every primary channel of the rows of the final
\* partial window as it was, whatever they hold; every audit entry it wrote
\* belongs to a nulled cell of a complete window, and outliersRemoved counts
\* those cells; a series of fewer than 18 rows leaves the loop unchanged, with
\* an empty audit map and outliersRemoved = 0.
C14_PartialWindowUntouched ==
    Cleaned =>
        /\ DOMAIN mid.d = Rows
        /\ \A i \in PartialRows : mid.d[i] = data[i]
        /\ \A k \in DOMAIN mid.audit :
             /\ mid.audit[k].action = "REMOVED"
             /\ \E j \in CompleteRows :
                  /\ data[j].t = mid.audit[k].time
                  /\ data[j][mid.audit[k].column] = mid.audit[k].originalValue
                  /\ mid.d[j][mid.audit[k].column] = Null
        /\ mid.outliersRemoved =
             Cardinality({c \in CompleteRows \X PrimaryCols :
                             mid.d[c[1]][c[2]] # data[c[1]][c[2]]})
        /\ ALen(data) < STAGE_ROWS =>
             mid.d = data /\ mid.audit = << >> /\ mid.outliersRemoved = 0

\* a heart rate above 250 survives in the row after a complete window in which
\* an out-of-range heart rate was removed
C14_Witness ==
    /\ Cleaned
    /\ mid.outliersRemoved > 0
    /\ \E i \in PartialRows :
         /\ data[i].HR > HR_MAX * ONE
         /\ mid.d[i].HR = data[i].HR
         /\ out.cleanedData[i].HR = data[i].HR

HrOutOfRange(hr) == hr # Null /\ (hr <= 0 \/ hr > HR_MAX * ONE)

\* C15 as stated: no row of a complete window of cleanedData carries an HR that
\* is <= 0 or > 250.
C15_NoOutOfRangeHr ==
    Cleaned => \A i \in CompleteRows : ~HrOutOfRange(out.cleanedData[i].HR)

\* C15 amended: the removal loop nulls every HR <= 0 or > 250 of a complete
\* window and logs it REMOVED, whatever the 3SD band is, and leaves no such HR
\* behind.  An out-of-range HR of cleanedData was put into a nulled cell by the
\* second loop: it is a rejected original of that time label lying within 1e-6
\* of the line between the cell's neighbours, or a value on that line next to
\* such a value; it is out of range by less than 18 times 1e-6.
C15_OutOfRangeHrOnlyRestored ==
    Cleaned =>
        /\ \A i \in CompleteRows :
             /\ ~HrOutOfRange(mid.d[i].HR)
             /\ HrOutOfRange(data[i].HR) => RemovedAndLogged(i, "HR")
        /\ \A i \in CompleteRows :
             LET v == out.cleanedData[i].HR
                 cur == SeriesAt(i, "HR")
             IN HrOutOfRange(v) =>
                  /\ Repaired(i, "HR")
                  /\ v > 0 - STAGE_ROWS * EPS
                  /\ v < HR_MAX * ONE + STAGE_ROWS * EPS
                  /\ \/ /\ NearSegment(cur, "HR", i, v)
                        /\ \E r \in Rows : data[r].t = data[i].t /\ data[r].HR = v
                                            /\ HrOutOfRange(data[r].HR)
                     \/ /\ OnSegment(cur, "HR", i, v)
                        /\ \E q \in {Neighbours(cur, "HR", i)[1], Neighbours(cur, "HR", i)[2]} :
                              HrOutOfRange(cur[q].HR)

\* a heart rate just above 250 between two heart rates of 250 was rejected by
\* the range rule and is back in cleanedData
C15_Witness ==
    /\ Cleaned
    /\ \E i \in CompleteRows :
         /\ data[i].HR > HR_MAX * ONE
         /\ RemovedAndLogged(i, "HR")
         /\ out.cleanedData[i].HR = data[i].HR
         /\ EntriesOf(out.auditLog, i, "HR") = {}

----------------------------------------------------------------------------
(* Row objects and arrays: which call writes into which object *)

\* heap.rows maps every row object (a number, in order of creation) to its
\* fields; heap.arrays maps the name of every array variable of the call to the
\* row objects the array holds, in order.  The caller's array is "data", the
\* returned one "out".  All fields are numbers, strings or null, which a JSON
\* round trip returns as they were.

Ids(arr) == {arr[i] : i \in DOMAIN arr}

\* the rows an array holds, by value
ValuesOf(h, name) == [i \in DOMAIN h.arrays[name] |-> h.rows[h.arrays[name][i]]]

DeepCopyOfArrayOnly(h, src, dst) ==
    [h EXCEPT !.arrays = (dst :> h.arrays[src]) @@ h.arrays]

\* dst = JSON.parse(JSON.stringify(src)): a new array of new row objects
DeepCopy(h, src, dst) ==
    LET ids == h.arrays[src]
        base == ALen(h.rows)
    IN [rows |-> [k \in 0..(base + ALen(ids) - 1) |->
                    IF k < base THEN h.rows[k] ELSE h.rows[ids[k - base]]],
        arrays |-> (dst :> [i \in DOMAIN ids |-> base + i]) @@ h.arrays]

\* the assignments name[i][col] = ... of a loop: the objects the array holds
\* get the fields vals[i]
WriteRows(h, name, vals) ==
    LET ids == h.arrays[name]
    IN [h EXCEPT !.rows = [k \in DOMAIN h.rows |->
                              IF k \in Ids(ids)
                              THEN vals[CHOOSE i \in DOMAIN ids : ids[i] = k]
                              ELSE h.rows[k]]]

\* dst = an array of row objects created by { ...row } with the fields vals[i]
NewRows(h, dst, vals) ==
    LET base == ALen(h.rows)
    IN [rows |-> [k \in 0..(base + ALen(vals) - 1) |->
                    IF k < base THEN h.rows[k] ELSE vals[k - base]],
        arrays |-> (dst :> [i \in DOMAIN vals |-> base + i]) @@ h.arrays]

\* a sequence as a 0-based array
ZeroBased(seq) == [i \in 0..(Len(seq) - 1) |-> seq[i + 1]]

\* recalculateDerivedMetrics(row, w): newRow = { ...row }, then writes to newRow
HeapRecalc(h, w) ==
    NewRows(h, "out", [i \in DOMAIN h.arrays["data"] |->
                          recalculateDerivedMetrics(ValuesOf(h, "data")[i], w)])

\* cleanAndInterpolateData(data, w) from its copy h1 of the argument on: both
\* loops, whose final state is s, write into the rows of tempCleanedData
\* (stageData is a slice holding the same row objects, spliced back in place);
\* the map at the end creates the returned rows
HeapClean(h1, s, w) ==
    LET h2 == WriteRows(h1, "tempCleanedData", s.d)
    IN NewRows(h2, "out", [i \in DOMAIN s.d |-> recalculateDerivedMetrics(s.d[i], w)])

\* applySmoothing(data, w): reads data, writes into the rows of newSmoothedData
HeapSmooth(h, w) ==
    LET h1 == DeepCopy(h, "data", "newSmoothedData")
        d == ValuesOf(h1, "data")
    IN IF ALen(d) < 3
       THEN [h1 EXCEPT !.arrays = ("out" :> h1.arrays["newSmoothedData"]) @@ h1.arrays]
       ELSE LET h2 == WriteRows(h1, "newSmoothedData", [i \in DOMAIN d |-> SmoothedRow(d, i)])
            IN NewRows(h2, "out",
                       [i \in DOMAIN d |->
                           recalculateDerivedMetrics(ValuesOf(h2, "newSmoothedData")[i], w)])

\* extractPercentageDataForMetrics(data, metrics): result holds { ...data[foundIndex], ... }
HeapExtract(h, metrics) ==
    NewRows(h, "out", ZeroBased(extractPercentageDataForMetrics(ValuesOf(h, "data"), metrics)))

\* the five functions
Functions == {"recalculateDerivedMetrics", "cleanAndInterpolateData", "applySmoothing",
              "calculateKeyMetricsForData", "extractPercentageDataForMetrics"}

\* what the rows past the scanned start of the first stage hold in a cleaning call
HeapChoices == {"keep", "null", "p30"}

\* VO2 of the rows given to the metrics and percentile functions: missing, 2.0, 3.0
HeapVo2 == {Null, 2 * ONE, 3 * ONE}

\* the caller's array for a call of fn
HeapInput(fn) ==
    CASE fn = "recalculateDerivedMetrics" ->
           \E vo2 \in RecalcVo2, hr \in RecalcHr, fd \in RecalcHeld :
              data = [i \in {0} |-> [InputRow(0, 0, "VO2", "keep", fd) EXCEPT
                                       !.VO2 = vo2, !.HR = hr]]
      [] fn = "cleanAndInterpolateData" ->
           \E n \in STAGE_ROWS..MaxRows, col \in {"VO2", "HR"},
              pat \in [0..3 -> HeapChoices], fd \in FileDerived :
              data = CleanInput(n, col, STAGE_ROWS - 3, pat, FALSE, fd)
      [] fn = "applySmoothing" ->
           \E n \in 0..MaxSmoothRows, fd \in FileDerived :
              \E pat \in [0..(n - 1) -> SmoothChoices] :
                 data = SmoothInput(n, pat, n, fd)
      [] OTHER ->
           \E n \in 0..MaxSeries :
              \E vo2 \in [0..(n - 1) -> HeapVo2] :
                 data = Series(n, [i \in 0..(n - 1) |-> STAGE_DURATION_SECONDS * i], vo2)

InitHeap ==
    /\ pc = "input"
    /\ batch = NoOut
    /\ out = NoOut
    /\ mid = NoOut
    /\ bodyWeight \in Weights
    /\ \E fn \in Functions : arg = [fn |-> fn] /\ HeapInput(fn)
    /\ heap = [rows |-> data, arrays |-> ("data" :> [i \in DOMAIN data |-> i])]

CallRecalcOnHeap ==
    /\ pc = "input"
    /\ arg.fn = "recalculateDerivedMetrics"
    /\ pc' = "called"
    /\ heap' = HeapRecalc(heap, bodyWeight)
    /\ UNCHANGED <<batch, data, bodyWeight, arg, mid, out>>

\* mid and out keep the states the two loops leave
CallCleanOnHeap ==
    /\ pc = "input"
    /\ arg.fn = "cleanAndInterpolateData"
    /\ pc' = "called"
    /\ LET h1 == DeepCopy(heap, "data", "tempCleanedData")
       IN /\ mid' = RemovalPhase(ValuesOf(h1, "tempCleanedData"))
          /\ out' = InterpolationLoop(mid', 1)
          /\ heap' = HeapClean(h1, out', bodyWeight)
    /\ UNCHANGED <<batch, data, bodyWeight, arg>>

CallSmoothOnHeap ==
    /\ pc = "input"
    /\ arg.fn = "applySmoothing"
    /\ pc' = "called"
    /\ heap' = HeapSmooth(heap, bodyWeight)
    /\ UNCHANGED <<batch, data, bodyWeight, arg, mid, out>>

\* calculateKeyMetricsForData returns numbers and strings; it creates no row
CallMetricsOnHeap ==
    /\ pc = "input"
    /\ arg.fn = "calculateKeyMetricsForData"
    /\ pc' = "called"
    /\ heap' = heap
    /\ UNCHANGED <<batch, data, bodyWeight, arg, mid, out>>

CallExtractOnHeap ==
    /\ pc = "input"
    /\ arg.fn = "extractPercentageDataForMetrics"
    /\ pc' = "called"
    /\ heap' = HeapExtract(heap, calculateKeyMetricsForData(ValuesOf(heap, "data")))
    /\ UNCHANGED <<batch, data, bodyWeight, arg, mid, out>>

OutIds == IF "out" \in DOMAIN heap.arrays THEN Ids(heap.arrays["out"]) ELSE {}

\* the caller assigns to a row of the returned array
ChangeReturnedRow ==
    /\ pc = "called"
    /\ pc' = "changed"
    /\ \E k \in OutIds :
          heap' = [heap EXCEPT !.rows[k].VO2 = IF @ = Null THEN 0 ELSE Null,
                               !.rows[k].Marker = "changed"]
    /\ UNCHANGED <<batch, data, bodyWeight, arg, mid, out>>

NextHeap ==
    \/ CallRecalcOnHeap
    \/ CallCleanOnHeap
    \/ CallSmoothOnHeap
    \/ CallMetricsOnHeap
    \/ CallExtractOnHeap
    \/ ChangeReturnedRow

SpecHeap == InitHeap /\ [][NextHeap]_vars

----------------------------------------------------------------------------
(* Claims about the arguments of the five functions *)

\* C16: after a call of any of the five functions, and after a later
\* assignment to a returned row, the caller's array holds the same row objects
\* in the same order, every one of them has the value in every field that it had
\* before the call, and no returned row is one of them.
C16_InputUntouchedAndUnshared ==
    pc \in {"called", "changed"} =>
        /\ heap.arrays["data"] = [i \in DOMAIN data |-> i]
        /\ \A i \in DOMAIN data : heap.rows[i] = data[i]
        /\ OutIds \cap Ids(heap.arrays["data"]) = {}

\* cleanAndInterpolateData nulled a value in a copy, returned rows, and the
\* caller then changed one of them
C16_Witness ==
    /\ pc = "changed"
    /\ arg.fn = "cleanAndInterpolateData"
    /\ \E i \in DOMAIN data :
         /\ ValuesOf(heap, "tempCleanedData")[i].VO2 # data[i].VO2
         /\ ValuesOf(heap, "out")[i].Marker = "changed"
         /\ heap.rows[i].Marker = "m"

----------------------------------------------------------------------------
(* handleBatchProcess (src/App.tsx) *)

\* A selected file is [base, ext, weight, content]: its name is base.ext, weight
\* is the number parseFloat finds in the weight field (0: none or not positive),
\* content tells what reading it gives.

\* extractNameFromFile for names without Chinese characters: the extension is cut
extractNameFromFile(file) == file.base

\* the rows parseExcelFileContents resolves with, by content
ParsedRows(content) ==
    CASE content = "two rows" ->
           Series(2, [i \in 0..1 |-> 160 * i], [i \in 0..1 |-> 2 * ONE + i * ONE])
      [] content = "gap" ->
           Series(3, [i \in 0..2 |-> 160 * i],
                  [i \in 0..2 |-> IF i = 1 THEN Null ELSE 2 * ONE])
      [] OTHER ->
           Series(1, [i \in 0..0 |-> 0], [i \in 0..0 |-> 3 * ONE])

\* parseExcelFileContents rejects: no header row, an unreadable workbook, a read error
ParseRejects(file) == file.content = "no header"

\* extractDurationFromFile: the seconds in cell C97, or null; it never rejects
HasDuration(file) == file.content = "two rows"
DurationOf(file) == 600

\* the record pushed to newResults when the try block runs to its end
PipelineResult(file) ==
    LET w == file.weight
        raw == ParsedRows(file.content)
        cleaned == cleanAndInterpolateData(raw, w)
        smoothed == applySmoothing(cleaned.cleanedData, w)
        computed == calculateKeyMetricsForData(smoothed)
        metrics == [f \in DOMAIN computed \cup {"duration"} |->
                      IF f = "duration"
                      THEN (IF HasDuration(file) THEN DurationOf(file) ELSE 0 - 1)
                      ELSE computed[f]]
    IN [fileName |-> extractNameFromFile(file),
        metrics |-> metrics,
        smoothedData |-> smoothed,
        percentageData |-> extractPercentageDataForMetrics(smoothed, metrics),
        auditLog |-> cleaned.auditLog,
        cleaningStats |-> cleaned.stats]

\* resultsMap.set(res.fileName, res) on a Map kept as the sequence of its values
MapSet(results, res) ==
    IF \E k \in DOMAIN results : results[k].fileName = res.fileName
    THEN [k \in DOMAIN results |->
            IF results[k].fileName = res.fileName THEN res ELSE results[k]]
    ELSE Append(results, res)

RECURSIVE MapSetAll(_, _)
MapSetAll(results, new) ==
    IF new = << >> THEN results
    ELSE MapSetAll(MapSet(results, Head(new)), Tail(new))

\* findBestMatchIndex for one-letter names: score 0 for the same name, else
\* Levenshtein 1 plus the penalty 1.1 (in tenths); the first best score wins;
\* 0 when no name of the order scores 3.1 or less
RECURSIVE BestMatch(_, _, _, _)
BestMatch(recordName, nameOrder, i, best) ==
    IF i > Len(nameOrder) THEN (IF best.score > 31 THEN 0 ELSE best.index)
    ELSE LET currentScore == IF recordName = nameOrder[i] THEN 0 ELSE 10 + 11
         IN BestMatch(recordName, nameOrder, i + 1,
                      IF currentScore < best.score
                      THEN [index |-> i, score |-> currentScore] ELSE best)

findBestMatchIndex(recordName, nameOrder) ==
    BestMatch(recordName, nameOrder, 1, [index |-> 0, score |-> 1000])

\* a stable insertion of res into a sequence sorted by the comparator of applySortOrder
RECURSIVE InsertSorted(_, _, _)
InsertSorted(sorted, res, order) ==
    LET rank(r) == LET ix == findBestMatchIndex(r.fileName, order)
                   IN IF ix = 0 THEN Len(order) + 1 ELSE ix
    IN IF sorted = << >> THEN <<res>>
       ELSE IF rank(sorted[Len(sorted)]) <= rank(res) THEN Append(sorted, res)
       ELSE Append(InsertSorted(SubSeq(sorted, 1, Len(sorted) - 1), res, order),
                   sorted[Len(sorted)])

RECURSIVE SortAll(_, _, _)
SortAll(results, sorted, order) ==
    IF results = << >> THEN sorted
    ELSE SortAll(Tail(results), InsertSorted(sorted, Head(results), order), order)

applySortOrder(results, order) ==
    IF Len(order) = 0 THEN results ELSE SortAll(results, << >>, order)

\* the updater given to setBatchResults after the loop
MergeResults(prevResults, newResults, order) ==
    applySortOrder(MapSetAll(MapSetAll(<< >>, prevResults), newResults), order)

HasWeight(file) == file.weight > 0

RECURSIVE SelectSeq2(_, _)
SelectSeq2(files, keep) ==
    IF files = << >> THEN << >>
    ELSE IF (HasWeight(Head(files)) <=> keep)
         THEN <<Head(files)>> \o SelectSeq2(Tail(files), keep)
         ELSE SelectSeq2(Tail(files), keep)

AfterFileMergingAtOnce(b, file) ==
    IF ParseRejects(file)
    THEN [b EXCEPT !.i = b.i + 1, !.status = "error"]
    ELSE [b EXCEPT !.i = b.i + 1, !.status = "processing",
                   !.newResults = Append(b.newResults, PipelineResult(file)),
                   !.batchResults = MergeResults(b.batchResults,
                                                 <<PipelineResult(file)>>, b.sortOrder)]

\* one pass of the loop body for file filesToProcess[i]: the try block pushes
\* the result, or the catch block reports the error
AfterFile(b, file) ==
    IF ParseRejects(file)
    THEN [b EXCEPT !.i = b.i + 1, !.status = "error"]
    ELSE [b EXCEPT !.i = b.i + 1, !.status = "processing",
                   !.newResults = Append(b.newResults, PipelineResult(file))]

\* the most files selected for one batch
MaxFiles == 3

\* the files offered: readable ones under two names, in two formats, an
\* unreadable one, and one without a weight
FileKinds ==
    {[base |-> "a", ext |-> "xlsx", weight |-> 70, content |-> "two rows"],
     [base |-> "a", ext |-> "xls", weight |-> 70, content |-> "gap"],
     [base |-> "a", ext |-> "xlsx", weight |-> 70, content |-> "no header"],
     [base |-> "b", ext |-> "xlsx", weight |-> 70, content |-> "gap"],
     [base |-> "b", ext |-> "xlsx", weight |-> 0, content |-> "two rows"]}

\* what an earlier session left in localStorage under the name "a"
EarlierResult ==
    PipelineResult([base |-> "a", ext |-> "xlsx", weight |-> 70, content |-> "one row"])

InitBatch ==
    /\ pc = "idle"
    /\ heap = NoOut
    /\ out = NoOut
    /\ mid = NoOut
    /\ arg = NoOut
    /\ data = NoOut
    /\ bodyWeight = NoOut
    /\ \E n \in 0..MaxFiles :
         \E files \in [1..n -> FileKinds], order \in {<< >>, <<"b", "a">>},
            loaded \in {<< >>, <<EarlierResult>>} :
            batch = [batchFiles |-> files,
                     sortOrder |-> order,
                     loaded |-> loaded,
                     batchResults |-> loaded,
                     persisted |-> loaded,
                     rendered |-> TRUE,
                     isBatchLoading |-> FALSE,
                     status |-> "",
                     filesToProcess |-> << >>,
                     i |-> 0,
                     newResults |-> << >>,
                     closureFiles |-> << >>,
                     selectedInRun |-> << >>]

\* handleBatchFileSelect, from the end of its awaits: the functional update
\* appends the new file to whatever the queue holds then.  The file input stays
\* enabled while a batch runs, and this is a selection made then (the files
\* selected before the click are those of the initial queue); selectedInRun
\* records the files appended since the click on the process button.
BatchFileSelect ==
    /\ batch.isBatchLoading
    /\ Len(batch.batchFiles) < MaxFiles
    \* the file picked carries a weight in its header, or none
    /\ \E weight \in {70, 0} :
       LET file == [base |-> "c", ext |-> "xlsx", weight |-> weight, content |-> "two rows"]
       IN batch' = [batch EXCEPT !.batchFiles = Append(@, file),
                                 !.selectedInRun = Append(@, file)]
    /\ UNCHANGED <<pc, heap, data, bodyWeight, arg, mid, out>>

\* the click on the process button, up to the loop; batchFiles of the render
\* that created the handler stays in its closure
BatchStart ==
    /\ pc = "idle"
    /\ Len(batch.batchFiles) > 0
    /\ ~batch.isBatchLoading
    /\ LET filesToProcess == SelectSeq2(batch.batchFiles, TRUE)
       IN IF Len(filesToProcess) = 0
          THEN pc' = "returned" /\ UNCHANGED batch
          ELSE /\ pc' = "loop"
               /\ batch' = [batch EXCEPT !.filesToProcess = filesToProcess,
                                         !.closureFiles = batch.batchFiles,
                                         !.isBatchLoading = TRUE,
                                         !.newResults = << >>,
                                         !.i = 0]
    /\ UNCHANGED <<heap, data, bodyWeight, arg, mid, out>>

\* one pass of the loop, from its awaits to the end of the try statement
ProcessFile ==
    /\ pc = "loop"
    /\ batch.i < Len(batch.filesToProcess)
    /\ batch' = AfterFile(batch, batch.filesToProcess[batch.i + 1])
    /\ UNCHANGED <<pc, heap, data, bodyWeight, arg, mid, out>>

\* the statements after the loop; line 635 filters the batchFiles of the closure
BatchFinish ==
    /\ pc = "loop"
    /\ batch.i = Len(batch.filesToProcess)
    /\ pc' = "done"
    /\ batch' = [batch EXCEPT
                   !.batchResults = MergeResults(batch.batchResults, batch.newResults,
                                                 batch.sortOrder),
                   !.rendered = FALSE,
                   !.batchFiles = SelectSeq2(batch.closureFiles, FALSE),
                   !.isBatchLoading = FALSE,
                   !.status = "complete"]
    /\ UNCHANGED <<heap, data, bodyWeight, arg, mid, out>>

\* the effect on [batchResults]: localStorage.setItem, which may throw (caught)
PersistHistory ==
    /\ ~batch.rendered
    /\ \E stored \in BOOLEAN :
          batch' = [batch EXCEPT !.rendered = TRUE,
                                 !.persisted = IF stored THEN batch.batchResults ELSE @]
    /\ UNCHANGED <<pc, heap, data, bodyWeight, arg, mid, out>>

\* the button that clears all records, which stays usable while a batch runs
ClearHistory ==
    /\ batch.batchResults # << >>
    /\ batch' = [batch EXCEPT !.batchResults = << >>, !.rendered = FALSE]
    /\ UNCHANGED <<pc, heap, data, bodyWeight, arg, mid, out>>

NextBatch ==
    \/ BatchStart
    \/ ProcessFile
    \/ BatchFinish
    \/ PersistHistory
    \/ ClearHistory
    \/ BatchFileSelect

SpecBatch == InitBatch /\ [][NextBatch]_vars

----------------------------------------------------------------------------
(* Claims about handleBatchProcess *)

Entries(results) == {results[k] : k \in DOMAIN results}

\* results2 holds a record that results1 does not
Gained(results1, results2) == Entries(results2) \ Entries(results1) # {}

\* the results of the files of filesToProcess whose run completes
CompletedResults ==
    {PipelineResult(batch.filesToProcess[k]) :
        k \in {j \in DOMAIN batch.filesToProcess : ~ParseRejects(batch.filesToProcess[j])}}

\* file k of filesToProcess completes and no later file that completes has its name
LastOfItsName(k) ==
    /\ ~ParseRejects(batch.filesToProcess[k])
    /\ \A j \in DOMAIN batch.filesToProcess :
         j > k /\ ~ParseRejects(batch.filesToProcess[j]) =>
            extractNameFromFile(batch.filesToProcess[j])
               # extractNameFromFile(batch.filesToProcess[k])

\* C20: the history gains records only in the step after the loop, and
\* localStorage gains them only after that step; every record of either is one
\* that was loaded at the start or the result of a file whose run completed; a
\* pass of the loop leaves the history alone and moves on to the next file,
\* with a new result when the run completed and without one when the parse
\* rejected; and the step after the loop records every file that completed,
\* whatever failed before it (the last one, when several carry one name).
C20_HistoryGainsOnlyCompletedRunsAfterLoop ==
    /\ [][/\ Gained(batch.batchResults, batch.batchResults')
               => pc = "loop" /\ pc' = "done" /\ batch.i = Len(batch.filesToProcess)
          /\ Gained(batch.persisted, batch.persisted') => pc = "done"
          /\ pc = "loop" /\ batch.i' # batch.i
               => /\ pc' = "loop"
                  /\ batch.i' = batch.i + 1
                  /\ batch.batchResults' = batch.batchResults
                  /\ batch.newResults' =
                        IF ParseRejects(batch.filesToProcess[batch.i + 1])
                        THEN batch.newResults
                        ELSE Append(batch.newResults,
                                    PipelineResult(batch.filesToProcess[batch.i + 1]))
          /\ pc = "loop" /\ pc' = "done"
               => \A k \in DOMAIN batch.filesToProcess :
                     LastOfItsName(k) =>
                        PipelineResult(batch.filesToProcess[k])
                           \in Entries(batch.batchResults')]_vars
    /\ [](Entries(batch.batchResults) \cup Entries(batch.persisted)
             \subseteq Entries(batch.loaded) \cup CompletedResults)

\* a batch whose first file failed and whose next file completed is finished and
\* stored: the second file is in localStorage, the name of the first is not
C20_Witness ==
    /\ pc = "done"
    /\ batch.rendered
    /\ Len(batch.filesToProcess) >= 2
    /\ ParseRejects(batch.filesToProcess[1])
    /\ ~ParseRejects(batch.filesToProcess[2])
    /\ PipelineResult(batch.filesToProcess[2]) \in Entries(batch.persisted)
    /\ \A r \in Entries(batch.persisted) :
          r.fileName # extractNameFromFile(batch.filesToProcess[1])

----------------------------------------------------------------------------
(* Claims about the audit trail of the interpolation loop *)

\* the cells of the series that the second loop filled with an interpolated value
FilledCells == {c \in Rows \X PrimaryCols : Filled(c[1], c[2])}

\* C21 as stated: every filled cell, whether its value was rejected by the
\* detector or was null in the input, has an INTERPOLATED entry under its
\* (time, channel) key whose newValue is the filled value, and
\* pointsInterpolated counts all filled cells.
C21_EveryFilledValueLogged ==
    Cleaned =>
        /\ \A c \in FilledCells :
             \E k \in EntriesOf(out.auditLog, c[1], c[2]) :
                /\ out.auditLog[k].action = "INTERPOLATED"
                /\ out.auditLog[k].newValue = out.cleanedData[c[1]][c[2]]
        /\ out.stats.pointsInterpolated = Cardinality(FilledCells)

\* what the code does with a null of the input that it can bridge: the cell is
\* filled, the audit log has no entry for it and no counter moves
C21_SilentFill ==
    /\ Cleaned
    /\ AllLabelsUnique
    /\ \E c \in FilledCells :
         /\ data[c[1]][c[2]] = Null
         /\ EntriesOf(out.auditLog, c[1], c[2]) = {}
         /\ out.stats.pointsInterpolated = 0
         /\ out.auditLog = << >>

\* the detector rejected the value of cell (i, col)
Rejected(i, col) == data[i][col] # Null /\ mid.d[i][col] = Null

\* the rejected cell has neighbours at most 3 apart when the second loop reaches it
BridgeableWhenReached(i, col) == Bridgeable(SeriesAt(i, col), col, i)

\* the rejected original is less than 1e-6 from the value interpolated for its cell
OriginalReproduced(i, col) == NearSegment(SeriesAt(i, col), col, i, data[i][col])

RestoredCells ==
    {c \in Rows \X PrimaryCols :
        Rejected(c[1], c[2]) /\ BridgeableWhenReached(c[1], c[2])
           /\ OriginalReproduced(c[1], c[2])}

UpgradedCells ==
    {c \in Rows \X PrimaryCols :
        Rejected(c[1], c[2]) /\ BridgeableWhenReached(c[1], c[2])
           /\ ~OriginalReproduced(c[1], c[2])}

RestoreOrUpgrade ==
    /\ \A c \in RestoredCells :
         /\ out.cleanedData[c[1]][c[2]] = data[c[1]][c[2]]
         /\ EntriesOf(out.auditLog, c[1], c[2]) = {}
    /\ \A c \in UpgradedCells :
         /\ OnSegment(SeriesAt(c[1], c[2]), c[2], c[1], out.cleanedData[c[1]][c[2]])
         /\ EntriesOf(out.auditLog, c[1], c[2]) # {}
         /\ \A k \in EntriesOf(out.auditLog, c[1], c[2]) :
              /\ out.auditLog[k].action = "INTERPOLATED"
              /\ out.auditLog[k].originalValue = data[c[1]][c[2]]
              /\ out.auditLog[k].newValue = out.cleanedData[c[1]][c[2]]
    /\ out.stats.outliersRemoved = mid.outliersRemoved - Cardinality(RestoredCells)
    /\ out.stats.pointsInterpolated = Cardinality(UpgradedCells)
    /\ \A i \in Rows : \A col \in PrimaryCols :
         Rejected(i, col) /\ Bridgeable(mid.d, col, i) => BridgeableWhenReached(i, col)

C22_RestoredOrUpgradedUniqueLabels == Cleaned /\ AllLabelsUnique => RestoreOrUpgrade

----------------------------------------------------------------------------
(* Claims about the spike rule of the heart-rate pass *)

StageStart(j) == STAGE_ROWS * (j \div STAGE_ROWS)

\* the removal loop logged HR of row j (its time label is unique) under rule
LoggedBy(j, rule) ==
    \E k \in EntriesOf(mid.audit, j, "HR") :
        mid.audit[k].action = "REMOVED" /\ mid.audit[k].reason[1] = rule

\* the heart-rate pass finds a number in HR of row j: the input holds one and
\* the 3SD rule of the stage did not remove it
HrReachesPass(j) ==
    /\ data[j].HR # Null
    /\ ~(j - StageStart(j) >= 3
         /\ BeyondBand(StageStats(data, "HR", StageStart(j) + 3,
                                  StageStart(j) + STAGE_ROWS - 1, NoStats), "HR", j))

\* HR of row j is in range and more than 20 above a valid HR of the row before
\* it in the same stage, as the pass finds them
JumpAfterValidHr(j) ==
    /\ HrReachesPass(j)
    /\ ~HrOutOfRange(data[j].HR)
    /\ j > StageStart(j)
    /\ mid.d[j - 1].HR # Null
    /\ data[j].HR - mid.d[j - 1].HR > HR_JUMP * ONE

\* channel col of row j is not higher than in row j - 1 (a missing value is not higher)
NotHigher(j, col) ==
    mid.d[j][col] = Null \/ mid.d[j - 1][col] = Null \/ mid.d[j][col] <= mid.d[j - 1][col]

\* both rows hold a number in col, and row j not a higher one
NumbersNotHigher(j, col) ==
    mid.d[j][col] # Null /\ mid.d[j - 1][col] # Null /\ mid.d[j][col] <= mid.d[j - 1][col]

\* the heart-rate pass nulled an in-range HR that it found in row j
RejectedBySpikeRule(j) ==
    HrReachesPass(j) /\ ~HrOutOfRange(data[j].HR) /\ mid.d[j].HR = Null

\* C23 as stated: in a complete stage the spike rule rejects HR of row j exactly
\* when the row before it in the stage holds a valid HR, the jump is above 20
\* and neither VO2 nor VE is higher than in the row before.
C23_SpikeIffNoGasIncrease ==
    Cleaned => \A j \in CompleteRows :
        RejectedBySpikeRule(j)
            <=> JumpAfterValidHr(j) /\ NotHigher(j, "VO2") /\ NotHigher(j, "VE")

\* C23 amended: ... and VO2 and VE are numbers in both rows, neither of them
\* higher in row j; when VO2 or VE is missing in either row the rule rejects
\* nothing.  The rejection is logged REMOVED with the spike reason under the
\* row's time label (when no other row carries that label).
C23_SpikeIffGasMeasuredAndNotHigher ==
    Cleaned => \A j \in CompleteRows :
        /\ RejectedBySpikeRule(j)
             <=> JumpAfterValidHr(j) /\ NumbersNotHigher(j, "VO2") /\ NumbersNotHigher(j, "VE")
        /\ UniqueLabel(j) => (LoggedBy(j, "spike") <=> RejectedBySpikeRule(j))

\* a jump of 30 with VO2 lower and VE equal was rejected
C23_Witness ==
    /\ Cleaned
    /\ \E j \in CompleteRows :
         /\ RejectedBySpikeRule(j) /\ LoggedBy(j, "spike")
         /\ data[j].HR - data[j - 1].HR > HR_JUMP * ONE
         /\ mid.d[j].VO2 < mid.d[j - 1].VO2 /\ mid.d[j].VO2 # Null
         /\ mid.d[j].VE = mid.d[j - 1].VE

----------------------------------------------------------------------------
(* Claims about the stages of calculateKeyMetricsForData *)

Summaries == out.plateauStageSummary

\* start and end time of the stage with 1-based number k, from its summary
StartOf(k) == (k - 1) * STAGE_DURATION_SECONDS
EndOf(k) == StartOf(k) + Summaries[k].duration

\* the rows of stage k when the stages partition the series: from its start up
\* to its end, the end itself belonging to the final stage
RowsOfStage(k) ==
    {r \in Rows : /\ data[r].timeInSeconds >= StartOf(k)
                  /\ \/ data[r].timeInSeconds < EndOf(k)
                     \/ k = Len(Summaries) /\ data[r].timeInSeconds = EndOf(k)}

\* the rows among rows that the average of stage k is taken over
TailOf(k, rows) ==
    IF k = Len(Summaries) /\ Summaries[k].duration <= TAIL_SECONDS
    THEN rows
    ELSE {r \in rows : data[r].timeInSeconds >= EndOf(k) - TAIL_SECONDS}

\* q is the mean of the valid VO2 values of rows, or 0 when there is none
MeanVo2Of(q, rows) ==
    LET valid == {r \in rows : data[r].VO2 # Null}
    IN IF valid = {} THEN q[1] = 0
       ELSE q[1] * Cardinality(valid) = SumVo2(data, valid) * q[2]

\* C24 as stated: the summaries cover the time up to the last row, the final
\* stage included however short; every row lies in exactly one stage, the last
\* row in the final one; and the average of a stage is taken over the rows of
\* the stage in its averaging window, so every row there contributes.
C24_EveryRowInOneStage ==
    Measured =>
        /\ Len(Summaries) = StagesSpanned
        /\ \A r \in Rows : Cardinality({k \in DOMAIN Summaries : r \in RowsOfStage(k)}) = 1
        /\ \A k \in DOMAIN Summaries :
             MeanVo2Of(Summaries[k].avgVo2, TailOf(k, RowsOfStage(k)))

\* what the code does with the last row: it is the only row of a short final
\* stage, holds a valid VO2, and the average of that stage is 0
C24_LastRowLeftOut ==
    /\ Measured
    /\ Len(Summaries) >= 2
    /\ RowsOfStage(Len(Summaries)) = {ALen(data) - 1}
    /\ data[ALen(data) - 1].VO2 > 0
    /\ Summaries[Len(Summaries)].avgVo2[1] = 0


\* the rows that the code selects for stage k: from its start up to, and not
\* including, its end
RowsBeforeEndOf(k) ==
    {r \in Rows : data[r].timeInSeconds >= StartOf(k) /\ data[r].timeInSeconds < EndOf(k)}

ShortFinalStage(k) ==
    /\ k = Len(Summaries)
    /\ Summaries[k].duration < STAGE_DURATION_SECONDS
    /\ Summaries[k].duration <= TAIL_SECONDS

\* C25 as stated: avgVo2 of a stage is the mean of the valid VO2 values of its
\* rows in its last 30 seconds, 0 when there is none; a final stage shorter
\* than 180 s uses its last 30 s when it is longer than 30 s and all of its
\* rows otherwise; isPartial is true exactly for a final stage that is shorter
\* than 180 s and at most 30 s long.
C25_TailAverageAndPartialFlag ==
    Measured =>
        \A k \in DOMAIN Summaries :
            /\ MeanVo2Of(Summaries[k].avgVo2, TailOf(k, RowsBeforeEndOf(k)))
            /\ Summaries[k].isPartial <=> ShortFinalStage(k)

\* the averages alone, and the flag only where the stage has a row
C25_TailAverage ==
    Measured =>
        \A k \in DOMAIN Summaries :
            /\ MeanVo2Of(Summaries[k].avgVo2, TailOf(k, RowsBeforeEndOf(k)))
            /\ Summaries[k].isPartial <=> ShortFinalStage(k) /\ RowsBeforeEndOf(k) # {}

\* a final stage of at most 30 s whose only row is the last row of the series:
\* the row is left out of the stage and the stage is not marked partial
C25_ShortFinalStageNotPartial ==
    /\ Measured
    /\ Len(Summaries) >= 2
    /\ ShortFinalStage(Len(Summaries))
    /\ RowsOfStage(Len(Summaries)) # {}
    /\ RowsBeforeEndOf(Len(Summaries)) = {}
    /\ ~Summaries[Len(Summaries)].isPartial


\* the first row at or after the start of the last stage
FirstRowOfLastStage ==
    LET at == {r \in Rows : data[r].timeInSeconds >= StartOf(Len(Summaries))}
    IN CHOOSE r \in at : \A x \in at : r <= x

\* C26: plateauTime and plateauComparison are defined exactly when
\* plateauReached is true; plateauTime is then the time label of the first row
\* whose timeSeconds is at or after the start of the last stage, and
\* plateauComparison holds the avgVo2 of the second-to-last and of the last
\* stage summary.
C26_PlateauTimeAndComparison ==
    pc = "metrics" =>
        IF out.plateauReached
        THEN /\ ALen(data) > 0
             /\ out.plateauTime = data[FirstRowOfLastStage].t
             /\ out.plateauComparison.prevStageAvg = PrevSummary.avgVo2
             /\ out.plateauComparison.lastStageAvg = LastSummary.avgVo2
        ELSE /\ out.plateauTime = Undefined
             /\ out.plateauComparison = Undefined

\* a plateau whose time label is that of a row in the middle of the series
C26_Witness ==
    /\ Measured
    /\ out.plateauReached
    /\ FirstRowOfLastStage > 0
    /\ FirstRowOfLastStage < ALen(data) - 1
    /\ data[FirstRowOfLastStage].t # data[ALen(data) - 1].t
    /\ out.plateauComparison.prevStageAvg # out.plateauComparison.lastStageAvg


----------------------------------------------------------------------------
(* Claims about what cleanAndInterpolateData leaves alone *)

Passthrough == {"t", "timeInSeconds", "Load", "Marker"}

\* C27: cleanedData has the rows of the input in the input's order; each row
\* keeps its time label, timeSeconds, Load and Marker; and every primary value
\* that was a number in the input and was not rejected by the detector is the
\* same in cleanedData.
C27_OnlyRejectedOrNullCellsChange ==
    Cleaned =>
        /\ DOMAIN out.cleanedData = DOMAIN data
        /\ \A i \in Rows :
            /\ \A f \in Passthrough : out.cleanedData[i][f] = data[i][f]
            /\ \A col \in PrimaryCols :
                 data[i][col] # Null /\ ~Rejected(i, col) =>
                     out.cleanedData[i][col] = data[i][col]

\* a rejected value replaced by another one and a null of the input filled,
\* next to numbers on the alternating part of the baseline that were kept
C27_Witness ==
    /\ Cleaned
    /\ \E i \in Rows, col \in PrimaryCols :
         /\ Rejected(i, col)
         /\ out.cleanedData[i][col] # Null
         /\ out.cleanedData[i][col] # data[i][col]
    /\ \E j \in Rows, col \in PrimaryCols :
         data[j][col] = Null /\ out.cleanedData[j][col] # Null
    /\ \E j \in Rows :
         /\ j > 0 /\ j + 1 < ALen(data)
         /\ data[j].VO2 # Null /\ data[j - 1].VO2 # Null /\ data[j + 1].VO2 # Null
         /\ 2 * data[j].VO2 # data[j - 1].VO2 + data[j + 1].VO2
         /\ out.cleanedData[j].VO2 = data[j].VO2


----------------------------------------------------------------------------
(* Claims about the number of rejections *)

RejectedCells == {c \in Rows \X PrimaryCols : Rejected(c[1], c[2])}

UniqueLabels == \A i \in Rows : UniqueLabel(i)

\* HR of row j is beyond the 3SD band of its stage and outside 1..250 as well
HrBeyondBandAndOutOfRange(j) ==
    /\ j \in CompleteRows
    /\ HrOutOfRange(data[j].HR)
    /\ ~HrReachesPass(j)

\* C28: after the removal phase outliersRemoved is the number of cells that
\* hold a number in the input and null now, one count per cell; an HR that the
\* 3SD pass of its stage nulled is not rejected again by the heart-rate pass,
\* so its entry names the 3SD rule; and when the time labels are unique the
\* audit map has exactly one entry per rejected cell, outliersRemoved many.
C28_EachCellRejectedOnce ==
    Cleaned =>
        /\ mid.outliersRemoved = Cardinality(RejectedCells)
        /\ \A j \in Rows : HrBeyondBandAndOutOfRange(j) /\ UniqueLabel(j) =>
             /\ Cardinality(EntriesOf(mid.audit, j, "HR")) = 1
             /\ LoggedBy(j, "3SD")
        /\ UniqueLabels =>
             /\ Len(mid.audit) = mid.outliersRemoved
             /\ \A c \in RejectedCells :
                  Cardinality(EntriesOf(mid.audit, c[1], c[2])) = 1

\* an HR above 250 that the 3SD pass removed, next to an HR that the
\* heart-rate pass removed, in a series with unique time labels
C28_Witness ==
    /\ Cleaned
    /\ UniqueLabels
    /\ \E j \in Rows : HrBeyondBandAndOutOfRange(j) /\ LoggedBy(j, "3SD")
    /\ \E j \in Rows : LoggedBy(j, "range") \/ LoggedBy(j, "spike")
    /\ mid.outliersRemoved >= 2


----------------------------------------------------------------------------
(* Claims about the percentile extractor fed with the metrics of its series *)

MetricsOfTheSeries == arg # NullMetrics /\ arg = calculateKeyMetricsForData(data)

\* C29: when the metrics were computed by calculateKeyMetricsForData from the
\* same series and vo2max > 0, exactly 10 rows are returned, labelled 10%,
\* 20%, ..., 100% in that order, and the row labelled 100% carries a VO2 equal
\* to vo2max.
C29_TenRowsUpToVo2max ==
    Extracted /\ MetricsOfTheSeries /\ arg.vo2max > 0 =>
        /\ Len(out) = 10
        /\ \A k \in 1..10 : out[k]["VO2_%max"] = PercentLabel(10 * k)
        /\ out[10].VO2 = arg.vo2max

\* ten rows from a series with a null, a value below the maximum and the
\* maximum in a later row
C29_Witness ==
    /\ Extracted /\ MetricsOfTheSeries /\ arg.vo2max > 0
    /\ Len(out) = 10
    /\ \E r \in Rows : data[r].VO2 = Null
    /\ out[1].VO2 < out[10].VO2
    /\ out[1].timeInSeconds < out[10].timeInSeconds


----------------------------------------------------------------------------
(* Claims about the queue of pending files *)

IsPrefix(s, t) == Len(s) <= Len(t) /\ SubSeq(t, 1, Len(s)) = s

\* the files of the queue at the click that the run skipped for their weight
SkippedFiles == SelectSeq2(batch.closureFiles, FALSE)

\* C30 as stated: a finished batch run has removed from the queue only the
\* files it processed; the files it skipped because their weight is missing or
\* <= 0 and the files that handleBatchFileSelect added while the run was
\* suspended are still in batchFiles, in their order.
C30_UnprocessedFilesStayQueued ==
    pc = "done" => IsPrefix(SkippedFiles \o batch.selectedInRun, batch.batchFiles)

\* a finished run that skipped a file and during which a file was added: the
\* skipped file is in the queue and the added one is not
C30_LateFileDropped ==
    /\ pc = "done"
    /\ batch.selectedInRun # << >>
    /\ SkippedFiles # << >>
    /\ batch.batchFiles = SkippedFiles

====
